---- MODULE Spec2Model ----
(***************************************************************************)
(* agent-rig: install-state management and incremental update.             *)
(*                                                                         *)
(* The module models the state store (state.json), the install gate, the   *)
(* claude-code and codex adapters, applyDiff, uninstall, the behavioral    *)
(* file guard of installBehavioral and the tagged env block of env.ts.     *)
(*                                                                         *)
(* Text files are sequences of tokens.  A token is either a whole marker   *)
(* (the begin tag, the end tag, the pointer line of the rig), a newline    *)
(* "n", a blank "s", or a chunk of ordinary text.                          *)
(***************************************************************************)
EXTENDS Naturals, Sequences, FiniteSets, TLC

VARIABLES
    manifest,    \* agent-rig.json currently published at the rig's source
    stateFile,   \* ~/.agent-rig/state.json
    platform,    \* what the claude CLI holds: plugins, disabled, mcp, marketplaces
    owned,       \* history: what this tool applied for the rig and is still applied
    written,     \* history: the content this tool last wrote to each behavioral file
    behFile,     \* .claude/rigs/<name>/<asset file>, per asset
    sidecar,     \* fileHashes of .claude/rigs/<name>/install-manifest.json
    rootFile,    \* ./CLAUDE.md and ./AGENTS.md, per asset
    profile,     \* the shell profile detectShell() points to
    procs,       \* invocations inside setRigState / removeRigState: what each has loaded
    dirs,        \* the rig's source directory and the temporary clone of the last run
    lastOp       \* what the last command did (its console outcome and its calls)

vars == <<manifest, stateFile, platform, owned, written, behFile, sidecar, rootFile, profile, procs, dirs, lastOp>>

\* ---------------------------------------------------------------- universe

RigName == "demo"

\* a text file that does not exist
Absent == <<"absent">>

\* a behavioral file that does not exist
NoFile == "absent"

\* no hash recorded for a path
NoHash == <<"none">>

Versions == {"1.0.0", "1.1.0"}

RequiredIds == {"p1"}

RecommendedIds == {"p2"}

ConflictIds == {"c1"}

McpServers == {[name |-> "m1", type |-> "http"]}

MarketplaceIds == {"mk1"}

Adapters == {"claude-code", "codex"}

Assets == {"claude-md", "agents-md"}

\* ------------------------------------------------------------ state store

\* The document is { rigs: { name: RigState } }: rigs is held as the set of its
\* entries, one per name.  parses tells whether JSON.parse accepts the bytes of
\* the file, shape what JSON.parse makes of them: "document" (an object with a
\* rigs map), "null", or "no-rigs" (an object without rigs, such as {}).
MissingStateFile == [exists |-> FALSE, parses |-> FALSE, shape |-> "document", rigs |-> {}]

\* a loadState whose catch branch hands back what the damaged file held
loadStateTrustingBytes == IF ~stateFile.exists THEN {} ELSE stateFile.rigs

\* loadState: a missing file and a file JSON.parse throws on read as { rigs: {} }
loadState ==
    IF ~stateFile.exists THEN {}
    ELSE IF ~stateFile.parses THEN {}
    ELSE stateFile.rigs

\* loadState().rigs[name]: loadState hands back what JSON.parse returned, and
\* the lookup of rigs[name] on null, or on an object without rigs, throws
RigsLookupThrows ==
    stateFile.exists /\ stateFile.parses /\ stateFile.shape # "document"

HasRigState(name) == \E e \in loadState : e.name = name

\* getRigState(name), for a name that has a record
getRigState(name) == (CHOOSE e \in loadState : e.name = name).state

\* state.rigs[name] = rigState
\* a put that adds the record and keeps the earlier one of that name
WithRigKeepingEarlier(rigs, name, rigState) ==
    rigs \cup {[name |-> name, state |-> rigState]}

WithRig(rigs, name, rigState) ==
    { e \in rigs : e.name # name } \cup {[name |-> name, state |-> rigState]}

\* delete state.rigs[name]
WithoutRig(rigs, name) == { e \in rigs : e.name # name }

\* saveState: the whole document is written
saveState(rigs) ==
    [exists |-> TRUE, parses |-> TRUE, shape |-> "document", rigs |-> rigs]

\* setRigState: load, assign rigs[name], save the whole document
setRigState(name, rigState) == saveState(WithRig(loadState, name, rigState))

\* removeRigState: load, delete rigs[name], save the whole document
removeRigState(name) == saveState(WithoutRig(loadState, name))

\* the invocations that can be inside setRigState / removeRigState at one time
Procs == {"i1", "i2"}

\* an invocation that is not inside a call on the state store
NoRigState ==
    [version |-> "", plugins |-> {}, disabledConflicts |-> {}, mcpServers |-> {},
     behavioral |-> {}, marketplaces |-> {}, envProfilePath |-> "undefined"]

Idle == [pc |-> "idle", kind |-> "", name |-> "", rigState |-> NoRigState, rigs |-> {}]

\* a save that reads the file again and changes what it finds there
SavedAfterReload(proc) ==
    IF proc.kind = "set"
    THEN WithRig(loadState, proc.name, proc.rigState)
    ELSE WithoutRig(loadState, proc.name)

\* the rigs an invocation hands to saveState: what it loaded, with its change
Saved(proc) ==
    IF proc.kind = "set"
    THEN WithRig(proc.rigs, proc.name, proc.rigState)
    ELSE WithoutRig(proc.rigs, proc.name)

\* ------------------------------------------------------------ install gate

\* the gate without the dry-run test: existing && !opts.force
GateDecisionIgnoringDryRun(hasExisting, existingVersion, rigVersion, force, dryRun) ==
    IF hasExisting /\ ~force
    THEN IF existingVersion = rigVersion
         THEN "NoOpSameVersion"
         ELSE "SuggestUpdate"
    ELSE IF ~hasExisting THEN "ProceedFresh"
    ELSE "ProceedForced"

\* the gate with the force test the wrong way round: existing && opts.force
GateDecisionForceInverted(hasExisting, existingVersion, rigVersion, force, dryRun) ==
    IF hasExisting /\ force /\ ~dryRun
    THEN IF existingVersion = rigVersion
         THEN "NoOpSameVersion"
         ELSE "SuggestUpdate"
    ELSE IF ~hasExisting THEN "ProceedFresh"
    ELSE IF force THEN "ProceedForced"
    ELSE "ProceedDryRun"

\* installCommand's gate: which way the command goes after getRigState
GateDecision(hasExisting, existingVersion, rigVersion, force, dryRun) ==
    IF hasExisting /\ ~force /\ ~dryRun
    THEN IF existingVersion = rigVersion
         THEN "NoOpSameVersion"
         ELSE "SuggestUpdate"
    ELSE IF ~hasExisting THEN "ProceedFresh"
    ELSE IF force THEN "ProceedForced"
    ELSE "ProceedDryRun"

\* ---------------------------------------------------------------- adapters

\* what a command started by run() does: it exits 0, it fails, or it is
\* killed when the timeout of execFile expires
CommandOutcomes == {"ok", "error", "timeout"}

\* a run that takes a command killed at the timeout for one that worked
runTimeoutAsSuccess(outcome) == [ok |-> outcome # "error"]

\* run(cmd, args): ok is true only if execFileAsync resolved
run(outcome) == [ok |-> outcome = "ok"]

\* getAllPluginSources / the list installPlugins builds (the rigs here have
\* no core and no infrastructure plugins)
getAllPluginSources(rig) == rig.required \cup rig.recommended

\* an InstallResult: component = prefix + id, status, and the message where it tells
\* two results of one status apart
ResultMsg(prefix, id, status, message) ==
    [prefix |-> prefix, id |-> id, status |-> status, message |-> message]

Result(prefix, id, status) == ResultMsg(prefix, id, status, "")

\* r.component.replace(prefix, ""): the prefix goes if it is there
StripPrefix(r) == r.id

\* ClaudeCodeAdapter.addMarketplaces: ok, or output saying "already", is installed
ClaudeAddMarketplaces(rig, fail) ==
    { Result("marketplace:", m, IF m \in fail THEN "failed" ELSE "installed") :
        m \in rig.marketplaces }

\* status of one `claude plugin install`: ok || output.includes("already")
PluginInstallStatus(ok, saysAlready) ==
    IF ok \/ saysAlready THEN "installed" ELSE "failed"

\* ClaudeCodeAdapter.installPlugins over the plugins of rig.  A plugin the
\* platform already holds answers "already"; otherwise the command works
\* unless it is in fail (error or timeout).
ClaudeInstallPlugins(rig, plat, fail) ==
    { Result("plugin:", p,
             PluginInstallStatus(p \notin fail /\ p \notin plat.plugins,
                                 p \notin fail /\ p \in plat.plugins)) :
        p \in getAllPluginSources(rig) }

\* CodexAdapter.installPlugins: no codex config -> one skipped result;
\* an installScript -> one result for the script
CodexInstallPlugins(rig, fail) ==
    IF rig.codex = "none"
    THEN {Result("", "codex-config", "skipped")}
    ELSE IF rig.codex = "script"
    THEN {Result("", "codex-install-script",
                 IF "codex-install-script" \in fail THEN "failed" ELSE "installed")}
    ELSE {}

\* ClaudeCodeAdapter.disableConflicts: ok -> disabled, else skipped
ClaudeDisableConflicts(conflicts, fail) ==
    { Result("conflict:", c, IF c \in fail THEN "skipped" ELSE "disabled") :
        c \in conflicts }

\* ClaudeCodeAdapter.installMcpServers: `mcp get` finds it -> skipped;
\* else `mcp add` ok -> installed, else failed
ClaudeInstallMcpServers(servers, plat, fail) ==
    { Result("mcp:", s.name,
             IF s.name \in plat.mcp THEN "skipped"
             ELSE IF s.name \in fail THEN "failed" ELSE "installed") :
        s \in servers }

Ids(results, status) == { StripPrefix(r) : r \in { x \in results : x.status = status } }

\* ------------------------------------------------------------- text files

IsSpace(t) == t \in {"n", "s"}

\* a trimEnd that strips nothing
trimEndKeepsAll(content) == content

\* String.prototype.trimEnd
RECURSIVE trimEnd(_)
trimEnd(content) ==
    IF content # <<>> /\ IsSpace(content[Len(content)])
    THEN trimEnd(SubSeq(content, 1, Len(content) - 1))
    ELSE content

\* index of the first t in content at or after from, 0 when there is none
RECURSIVE IndexFrom(_, _, _)
IndexFrom(content, t, from) ==
    IF from > Len(content) THEN 0
    ELSE IF content[from] = t THEN from
    ELSE IndexFrom(content, t, from + 1)

includes(content, t) == IndexFrom(content, t, 1) # 0

\* number of newlines at the head of content
RECURSIVE LeadingNewlines(_)
LeadingNewlines(content) ==
    IF content # <<>> /\ content[1] = "n"
    THEN 1 + LeadingNewlines(Tail(content))
    ELSE 0

\* content.replace(/\n{3,}/g, "\n\n")
RECURSIVE CollapseNewlines(_)
CollapseNewlines(content) ==
    IF content = <<>> THEN <<>>
    ELSE LET k == LeadingNewlines(content)
         IN IF k >= 3
            THEN <<"n", "n">> \o CollapseNewlines(SubSeq(content, k + 1, Len(content)))
            ELSE <<content[1]>> \o CollapseNewlines(Tail(content))

\* ------------------------------------------------------- env block (env.ts)

BEGIN_TAG == "B"

END_TAG == "E"

\* one body line of formatEnvBlock: export KEY="value" or set -gx KEY "value"
EnvLine(entry, shellName) ==
    IF shellName = "fish"
    THEN <<"set -gx ", entry.key, " q">> \o entry.value \o <<"q">>
    ELSE <<"export ", entry.key, "=q">> \o entry.value \o <<"q">>

RECURSIVE EnvLines(_, _)
EnvLines(env, shellName) ==
    IF env = <<>> THEN <<>>
    ELSE <<"n">> \o EnvLine(Head(env), shellName) \o EnvLines(Tail(env), shellName)

\* formatEnvBlock: begin tag, one line per entry, end tag, joined by newlines
formatEnvBlock(env, shellName) ==
    <<BEGIN_TAG>> \o EnvLines(env, shellName) \o <<"n", END_TAG>>

\* hasEnvBlock: the file exists and includes the begin tag
hasEnvBlock(prof) == prof # Absent /\ includes(prof, BEGIN_TAG)

\* The span of the first match of  begin [\s\S]*? end : from the first begin
\* tag that has an end tag after it to the first end tag after it.
\* <<0, 0>> when the pattern does not match.
BlockSpan(content) ==
    LET b == IndexFrom(content, BEGIN_TAG, 1)
        e == IF b = 0 THEN 0 ELSE IndexFrom(content, END_TAG, b + 1)
    IN IF e = 0 THEN <<0, 0>> ELSE <<b, e>>

\* What String.prototype.replace makes of a replacement string: "$$" stands
\* for one "$", "$&" for the matched text, "$`" for the text before the match
\* and "$'" for the text after it.
RECURSIVE ExpandReplacement(_, _, _, _)
ExpandReplacement(replacement, matched, before, after) ==
    IF replacement = <<>> THEN <<>>
    ELSE (IF Head(replacement) = "$&" THEN matched
          ELSE IF Head(replacement) = "$$" THEN <<"$">>
          ELSE IF Head(replacement) = "$`" THEN before
          ELSE IF Head(replacement) = "$'" THEN after
          ELSE <<Head(replacement)>>)
         \o ExpandReplacement(Tail(replacement), matched, before, after)

\* content.replace(regex, block) of writeEnvBlock
ReplaceBlock(content, block) ==
    LET span == BlockSpan(content)
    IN IF span[1] = 0 THEN content
       ELSE SubSeq(content, 1, span[1] - 1)
            \o ExpandReplacement(block, SubSeq(content, span[1], span[2]),
                                 SubSeq(content, 1, span[1] - 1),
                                 SubSeq(content, span[2] + 1, Len(content)))
            \o SubSeq(content, span[2] + 1, Len(content))

\* writeEnvBlock: the new content of the profile
writeEnvBlock(prof, env, shellName) ==
    LET block == formatEnvBlock(env, shellName)
    IN IF prof = Absent THEN block \o <<"n">>
       ELSE IF includes(prof, BEGIN_TAG) THEN ReplaceBlock(prof, block)
       ELSE trimEnd(prof) \o <<"n", "n">> \o block \o <<"n">>

\* content.replace(/\n?begin[\s\S]*?end\n?/, "\n") of removeEnvBlock
RemoveSpan(content) ==
    LET span == BlockSpan(content)
        from == IF span[1] > 1 /\ content[span[1] - 1] = "n"
                THEN span[1] - 1 ELSE span[1]
        to == IF span[2] < Len(content) /\ content[span[2] + 1] = "n"
              THEN span[2] + 1 ELSE span[2]
    IN IF span[1] = 0 THEN content
       ELSE SubSeq(content, 1, from - 1) \o <<"n">>
            \o SubSeq(content, to + 1, Len(content))

\* removeEnvBlock: whether it reports a removal
removeEnvBlockReturns(prof) == prof # Absent /\ includes(prof, BEGIN_TAG)

\* removeEnvBlock: the content of the profile afterwards
removeEnvBlock(prof) ==
    IF ~removeEnvBlockReturns(prof) THEN prof
    ELSE trimEnd(CollapseNewlines(RemoveSpan(prof))) \o <<"n">>

\* ------------------------------------- behavioral files (installBehavioral)

\* sha256 of a content
sha256(content) == <<"sha256", content>>

\* the line installBehavioral prepends to a root file; it carries the pointer tag
PointerLine == "P"

\* a modification check that does not compare with the hash of the new content
LocallyModifiedWhateverNew(dest, hashes, asset, content) ==
    /\ dest # NoFile
    /\ hashes[asset] # NoHash
    /\ sha256(dest) # hashes[asset]

\* the modification check of installBehavioral: TRUE when the write is refused
LocallyModified(dest, hashes, asset, content) ==
    /\ dest # NoFile
    /\ hashes[asset] # NoHash
    /\ sha256(dest) # hashes[asset]
    /\ sha256(dest) # sha256(content)

\* the assets rig.behavioral has a config for
Declared(rig) == { a \in Assets : rig.behavioral[a] # "undeclared" }

\* an installBehavioral that prepends the pointer line without looking for the tag
BehavioralOutcomeAlwaysPrepends(rig, asset, dest, hashes, root) ==
    IF rig.behavioral[asset] = "missing" THEN "source-missing"
    ELSE IF LocallyModified(dest, hashes, asset, rig.behavioral[asset])
    THEN "locally-modified"
    ELSE "pointer-added"

\* what installBehavioral does with one declared asset
BehavioralOutcome(rig, asset, dest, hashes, root) ==
    IF rig.behavioral[asset] = "missing" THEN "source-missing"
    ELSE IF LocallyModified(dest, hashes, asset, rig.behavioral[asset])
    THEN "locally-modified"
    ELSE IF root # Absent /\ includes(root, PointerLine) THEN "pointer-exists"
    ELSE "pointer-added"

Written(outcome) == outcome \in {"pointer-exists", "pointer-added"}

\* the result pushed for one asset
BehavioralResult(asset, outcome) ==
    IF outcome = "source-missing"
    THEN ResultMsg("behavioral:", asset, "failed", "Source not found")
    ELSE IF outcome = "locally-modified"
    THEN ResultMsg("behavioral:", asset, "skipped", "locally modified")
    ELSE IF outcome = "pointer-exists"
    THEN ResultMsg("behavioral:", asset, "skipped", "pointer already exists")
    ELSE ResultMsg("behavioral:", asset, "installed", "")

\* ClaudeCodeAdapter.installBehavioral: results and the files afterwards
installBehavioral(rig, files) ==
    LET declared == Declared(rig)
        out == [a \in declared |->
                   BehavioralOutcome(rig, a, files.behFile[a], files.sidecar, files.rootFile[a])]
        wrote == { a \in declared : Written(out[a]) }
    IN [results |-> { BehavioralResult(a, out[a]) : a \in declared },
        behFile |-> [a \in Assets |->
                        IF a \in wrote THEN rig.behavioral[a] ELSE files.behFile[a]],
        rootFile |-> [a \in Assets |->
                        IF a \in declared /\ out[a] = "pointer-added"
                        THEN <<PointerLine, "n", "n">>
                             \o (IF files.rootFile[a] = Absent THEN <<>> ELSE files.rootFile[a])
                        ELSE files.rootFile[a]],
        sidecar |-> [a \in Assets |->
                        IF a \in wrote THEN sha256(rig.behavioral[a]) ELSE NoHash],
        wrote |-> wrote]

\* content.split("\n")
RECURSIVE SplitLines(_)
SplitLines(content) ==
    LET i == IndexFrom(content, "n", 1)
    IN IF i = 0 THEN <<content>>
       ELSE <<SubSeq(content, 1, i - 1)>> \o SplitLines(SubSeq(content, i + 1, Len(content)))

\* lines.filter(line => !line.includes(tag)).join("\n")
RECURSIVE JoinWithout(_, _)
JoinWithout(lines, tag) ==
    IF lines = <<>> THEN <<>>
    ELSE IF includes(Head(lines), tag) THEN JoinWithout(Tail(lines), tag)
    ELSE LET rest == { i \in 2..Len(lines) : ~includes(lines[i], tag) }
         IN Head(lines) \o (IF rest = {} THEN <<>> ELSE <<"n">>)
            \o JoinWithout(Tail(lines), tag)

\* uninstall's pointer removal: drop the tagged lines, then the leading newlines
RemovePointer(root) ==
    IF root = Absent \/ ~includes(root, PointerLine) THEN root
    ELSE LET joined == JoinWithout(SplitLines(root), PointerLine)
         IN SubSeq(joined, LeadingNewlines(joined) + 1, Len(joined))

\* ------------------------------------------------------------ the claude CLI

\* the platform after the install-side commands whose results are given
PlatformAfterApply(plat, mpResults, pluginResults, conflictResults, mcpResults) ==
    [plugins |-> plat.plugins
                 \cup Ids({ r \in pluginResults : r.prefix = "plugin:" }, "installed"),
     disabled |-> plat.disabled \cup Ids(conflictResults, "disabled"),
     mcp |-> plat.mcp \cup Ids(mcpResults, "installed"),
     marketplaces |-> plat.marketplaces \cup Ids(mpResults, "installed")]

\* the platform after `plugin uninstall`, `plugin enable`, `mcp remove` for the
\* given ids; a command in fail changes nothing
PlatformAfterRemove(plat, plugins, conflicts, mcps, fail) ==
    [plugins |-> plat.plugins \ (plugins \ fail),
     disabled |-> plat.disabled \ (conflicts \ fail),
     mcp |-> plat.mcp \ (mcps \ fail),
     marketplaces |-> plat.marketplaces]

\* what the tool has applied and is still applied: a command that changed the
\* platform adds to it, a removal that worked takes away from it
OwnedAfter(own, before, after) ==
    [plugins |-> (own.plugins \cup (after.plugins \ before.plugins)) \cap after.plugins,
     disabled |-> (own.disabled \cup (after.disabled \ before.disabled)) \cap after.disabled,
     mcp |-> (own.mcp \cup (after.mcp \ before.mcp)) \cap after.mcp]

\* detectShell: the profile of the user's shell
detectShell == [name |-> "zsh", profilePath |-> "profile"]

\* ---------------------------------------------------------------- commands

Files == [behFile |-> behFile, sidecar |-> sidecar, rootFile |-> rootFile]

NoBehavioral ==
    [results |-> {}, behFile |-> behFile, sidecar |-> sidecar, rootFile |-> rootFile,
     wrote |-> {}]

\* the content last written to each behavioral file, after a run that wrote some
WrittenAfter(rig, wrote) ==
    [a \in Assets |-> IF a \in wrote THEN rig.behavioral[a] ELSE written[a]]

\* the units of a rig whose command can fail: marketplaces, plugins, conflicts,
\* MCP servers and the codex install script
Units(rig) ==
    rig.marketplaces \cup getAllPluginSources(rig) \cup rig.conflicts
    \cup { m.name : m \in rig.mcpServers }
    \cup (IF rig.codex = "script" THEN {"codex-install-script"} ELSE {})

\* ------------------------------------------------------------ external tools

\* A tool of rig.tools: its name, its optional flag, and what its commands do
\* on this machine: "present" (the check succeeds), "zero-works" (install
\* exits 0 and the check then succeeds), "zero-missing" (install exits 0, the
\* check still fails), "nonzero" (install exits with another code), "error"
\* (install cannot be spawned or times out).
ToolOutcomes == {"present", "zero-works", "zero-missing", "nonzero", "error"}

\* a step that installs an optional tool whatever includeOptional says
ToolStepInstallsOptional(tool, includeOptional) ==
    IF tool.outcome = "present"
    THEN [result |-> ResultMsg("tool:", tool.name, "skipped", "already installed"),
          ran |-> <<"check">>]
    ELSE IF tool.outcome = "nonzero"
    THEN [result |-> ResultMsg("tool:", tool.name, "failed", "exit code"),
          ran |-> <<"check", "install">>]
    ELSE IF tool.outcome = "error"
    THEN [result |-> ResultMsg("tool:", tool.name, "failed", "error"),
          ran |-> <<"check", "install">>]
    ELSE IF tool.outcome = "zero-works"
    THEN [result |-> ResultMsg("tool:", tool.name, "installed", ""),
          ran |-> <<"check", "install", "check">>]
    ELSE [result |-> ResultMsg("tool:", tool.name, "failed", "not found on PATH"),
          ran |-> <<"check", "install", "check">>]

\* one turn of the loop of installTools: the result pushed and the commands run
ToolStep(tool, includeOptional) ==
    IF tool.outcome = "present"
    THEN [result |-> ResultMsg("tool:", tool.name, "skipped", "already installed"),
          ran |-> <<"check">>]
    ELSE IF tool.optional /\ ~includeOptional
    THEN [result |-> ResultMsg("tool:", tool.name, "skipped", "optional"),
          ran |-> <<"check">>]
    ELSE IF tool.outcome = "nonzero"
    THEN [result |-> ResultMsg("tool:", tool.name, "failed", "exit code"),
          ran |-> <<"check", "install">>]
    ELSE IF tool.outcome = "error"
    THEN [result |-> ResultMsg("tool:", tool.name, "failed", "error"),
          ran |-> <<"check", "install">>]
    ELSE IF tool.outcome = "zero-works"
    THEN [result |-> ResultMsg("tool:", tool.name, "installed", ""),
          ran |-> <<"check", "install", "check">>]
    ELSE [result |-> ResultMsg("tool:", tool.name, "failed", "not found on PATH"),
          ran |-> <<"check", "install", "check">>]

\* installTools(rig, {includeOptional}): the results, and the commands run for each tool
installTools(tools, includeOptional) ==
    [results |-> [i \in 1..Len(tools) |-> ToolStep(tools[i], includeOptional).result],
     ran |-> [i \in 1..Len(tools) |-> ToolStep(tools[i], includeOptional).ran]]

\* the adapters array of installCommand, in its order
AdapterOrder == <<"claude-code", "codex">>

\* activeAdapters: the adapters whose detect() succeeded, in array order
ActiveAdapters(active) ==
    LET Detected(a) == a \in active IN SelectSeq(AdapterOrder, Detected)

\* one awaited call of installCommand and the units it works on
Call(call, adapter, units) == [call |-> call, adapter |-> adapter, units |-> units]

\* the units each adapter method works on (CodexAdapter works only in installPlugins)
CallUnits(rig, adapter, call) ==
    IF adapter = "claude-code"
    THEN CASE call = "addMarketplaces" -> rig.marketplaces
           [] call = "installPlugins" -> getAllPluginSources(rig)
           [] call = "disableConflicts" -> rig.conflicts
           [] call = "installMcpServers" -> { m.name : m \in rig.mcpServers }
           [] call = "installBehavioral" -> Declared(rig)
           [] OTHER -> {}
    ELSE IF call = "installPlugins" /\ rig.codex = "script"
    THEN {"codex-install-script"}
    ELSE {}

\* the body of the loop over activeAdapters for one adapter
AdapterCalls(rig, adapter) ==
    << Call("addMarketplaces", adapter, CallUnits(rig, adapter, "addMarketplaces")),
       Call("installPlugins", adapter, CallUnits(rig, adapter, "installPlugins")),
       Call("disableConflicts", adapter, CallUnits(rig, adapter, "disableConflicts")),
       Call("installMcpServers", adapter, CallUnits(rig, adapter, "installMcpServers")) >>
    \o (IF Declared(rig) # {}
        THEN << Call("installBehavioral", adapter, CallUnits(rig, adapter, "installBehavioral")) >>
        ELSE << >>)

RECURSIVE EachAdapter(_, _)
\* for (const adapter of activeAdapters) { ... }
EachAdapter(rig, adapters) ==
    IF adapters = << >> THEN << >>
    ELSE AdapterCalls(rig, Head(adapters)) \o EachAdapter(rig, Tail(adapters))

\* the calls after the adapter loop: tools, env block, state record, verify
ClosingCalls(rig, adapters) ==
    << Call("installTools", "", { rig.tools[i].name : i \in 1..Len(rig.tools) }) >>
    \o (IF rig.environment # << >> THEN << Call("writeEnvBlock", "", {"env"}) >> ELSE << >>)
    \o << Call("setRigState", "", {"state"}) >>
    \o [i \in 1..Len(adapters) |-> Call("verify", adapters[i], {adapters[i]})]

RECURSIVE EachPhase(_, _, _)
\* an install that takes one phase after the other over all adapters
EachPhase(rig, adapters, calls) ==
    IF calls = << >> THEN << >>
    ELSE [i \in 1..Len(adapters) |->
             Call(Head(calls), adapters[i], CallUnits(rig, adapters[i], Head(calls)))]
         \o EachPhase(rig, adapters, Tail(calls))

InstallOrderByPhase(rig, active) ==
    EachPhase(rig, ActiveAdapters(active),
              << "addMarketplaces", "installPlugins", "disableConflicts", "installMcpServers" >>
              \o (IF Declared(rig) # {} THEN << "installBehavioral" >> ELSE << >>))
    \o ClosingCalls(rig, ActiveAdapters(active))

\* the awaited calls of a confirmed install, in the order installCommand makes them
InstallOrder(rig, active) ==
    EachAdapter(rig, ActiveAdapters(active)) \o ClosingCalls(rig, ActiveAdapters(active))

Log(cmd, outcome, gate, force, dryRun, calls, results) ==
    [cmd |-> cmd, outcome |-> outcome, gate |-> gate, force |-> force,
     dryRun |-> dryRun, calls |-> calls, results |-> results, order |-> << >>]

\* the record installCommand saves: only results with status installed / disabled
InstallRecord(rig, mpResults, pluginResults, conflictResults, mcpResults, behResults, envProfilePath) ==
    [version |-> rig.version,
     plugins |-> Ids(pluginResults, "installed"),
     disabledConflicts |-> Ids(conflictResults, "disabled"),
     mcpServers |-> { m \in rig.mcpServers : m.name \in Ids(mcpResults, "installed") },
     behavioral |-> Ids(behResults, "installed"),
     marketplaces |-> Ids(mpResults, "installed"),
     envProfilePath |-> envProfilePath]

\* a profile that exists and that writeFileSync cannot write (a read-only
\* file): its first token says so, its content follows
UnwritableProfile == <<"unwritable">>

IsUnwritable(prof) == prof # <<>> /\ prof[1] = "unwritable"

\* the calls made up to the one that threw
CallsUpTo(order, call) ==
    SubSeq(order, 1, CHOOSE i \in 1..Len(order) : order[i].call = call)

\* installCommand past the gate, the dry run, the platform detection and the
\* confirmation: every adapter in turn, tools, env block, setRigState, verify.
\* writeEnvBlock has no try/catch: when writeFileSync throws, the exception
\* leaves installCommand before setRigState and verify.
InstallApply(rig, gate, force, active, fail, includeOptional) ==
    LET claude == "claude-code" \in active
        codex == "codex" \in active
        mpResults == IF claude THEN ClaudeAddMarketplaces(rig, fail) ELSE {}
        pluginResults ==
            (IF claude THEN ClaudeInstallPlugins(rig, platform, fail) ELSE {})
            \cup (IF codex THEN CodexInstallPlugins(rig, fail) ELSE {})
        conflictResults == IF claude THEN ClaudeDisableConflicts(rig.conflicts, fail) ELSE {}
        mcpResults == IF claude THEN ClaudeInstallMcpServers(rig.mcpServers, platform, fail) ELSE {}
        hasBehavioral == Declared(rig) # {}
        beh == IF claude /\ hasBehavioral THEN installBehavioral(rig, Files) ELSE NoBehavioral
        hasEnv == rig.environment # <<>>
        envThrows == hasEnv /\ IsUnwritable(profile)
        tools == installTools(rig.tools, includeOptional)
        toolResults == { tools.results[i] : i \in 1..Len(rig.tools) }
        after == PlatformAfterApply(platform, mpResults, pluginResults, conflictResults, mcpResults)
        rigState == InstallRecord(rig, mpResults, pluginResults, conflictResults, mcpResults,
                                  beh.results,
                                  IF hasEnv THEN detectShell.profilePath ELSE "undefined")
    IN /\ platform' = after
       /\ owned' = OwnedAfter(owned, platform, after)
       /\ written' = WrittenAfter(rig, beh.wrote)
       /\ behFile' = beh.behFile
       /\ sidecar' = beh.sidecar
       /\ rootFile' = beh.rootFile
       /\ profile' = IF hasEnv /\ ~envThrows
                     THEN writeEnvBlock(profile, rig.environment, detectShell.name)
                     ELSE profile
       /\ stateFile' = IF envThrows THEN stateFile ELSE setRigState(RigName, rigState)
       /\ lastOp' = [Log("install", IF envThrows THEN "thrown" ELSE "installed",
                         gate, force, FALSE,
                         {"detect", "checkConflicts", "addMarketplaces", "installPlugins",
                          "disableConflicts", "installMcpServers", "installTools"}
                         \cup (IF envThrows THEN {} ELSE {"setRigState", "verify"})
                         \cup (IF hasBehavioral THEN {"installBehavioral"} ELSE {})
                         \cup (IF hasEnv THEN {"writeEnvBlock"} ELSE {}),
                         mpResults \cup pluginResults \cup conflictResults
                         \cup mcpResults \cup beh.results \cup toolResults)
                     EXCEPT !.order = IF envThrows
                                      THEN CallsUpTo(InstallOrder(rig, active), "writeEnvBlock")
                                      ELSE InstallOrder(rig, active)]

\* a dry run that goes on to save the state record
DryRunCallsSavingState(cmd) == {"detect", "setRigState"}

\* the calls a dry run makes before it returns: install detects the platforms
\* for the plan, update returns right after printing the diff
DryRunCalls(cmd) == IF cmd = "install" THEN {"detect"} ELSE {}

\* the directories of a run: where the rig comes from ("local" or "github"),
\* the local source directory, and the temporary clone of the last run
\* ("none", "present" or "deleted")
SourceDirs(source) == [source |-> source, local |-> "present", clone |-> "none"]

\* cloneToLocal: a local source is used in place, a GitHub source is cloned
\* into a new temporary directory
cloneToLocal(d) ==
    IF d.source = "local" THEN d ELSE [d EXCEPT !.clone = "present"]

\* cleanupCloneDir: nothing for a local source, rm of the clone otherwise
cleanupCloneDir(d) ==
    IF d.source = "local" THEN d ELSE [d EXCEPT !.clone = "deleted"]

Untouched == UNCHANGED <<platform, owned, written, behFile, sidecar, rootFile, profile, stateFile>>

\* installCommand(source, {force, dryRun, minimal, yes}).  The source is fetched
\* first; the body runs in a try whose finally calls cleanupCloneDir, and the
\* process.exit(1) of the run without a platform ends the process inside the try.
Install(force, dryRun, minimal, confirmed, active) ==
    LET rig == IF minimal THEN [manifest EXCEPT !.recommended = {}] ELSE manifest
        had == HasRigState(RigName)
        gate == GateDecision(had, IF had THEN getRigState(RigName).version ELSE "",
                             rig.version, force, dryRun)
    IN /\ UNCHANGED <<manifest, procs>>
       /\ IF RigsLookupThrows
          THEN Untouched /\ lastOp' = Log("install", "thrown", "", force, dryRun, {}, {})
          ELSE IF gate = "NoOpSameVersion"
          THEN Untouched /\ lastOp' = Log("install", "already-installed", gate, force, dryRun, {}, {})
          ELSE IF gate = "SuggestUpdate"
          THEN Untouched /\ lastOp' = Log("install", "suggest-update", gate, force, dryRun, {}, {})
          ELSE IF dryRun
          THEN Untouched /\ lastOp' = Log("install", "dry-run", gate, force, dryRun,
                                         DryRunCalls("install"), {})
          ELSE IF active = {}
          THEN Untouched /\ lastOp' = Log("install", "no-platform", gate, force, dryRun, {"detect"}, {})
          ELSE IF ~confirmed
          THEN Untouched /\ lastOp' = Log("install", "aborted", gate, force, dryRun,
                                         {"detect", "checkConflicts"}, {})
          ELSE \E fail \in SUBSET Units(rig),
                  includeOptional \in (IF rig.tools = << >> THEN {FALSE} ELSE BOOLEAN) :
                  InstallApply(rig, gate, force, active, fail, includeOptional)
       /\ dirs' = IF lastOp'.outcome = "no-platform"
                  THEN cloneToLocal(dirs)
                  ELSE cleanupCloneDir(cloneToLocal(dirs))

\* versionChange: null, or <<from, to>>
NoVersionChange == <<>>

\* a diff that never lists a removed plugin
computeDiffWithoutRemovals(state, rig) ==
    [versionChange |-> IF state.version # rig.version
                       THEN <<state.version, rig.version>>
                       ELSE NoVersionChange,
     pluginsAdded |-> getAllPluginSources(rig) \ state.plugins,
     pluginsRemoved |-> {},
     conflictsAdded |-> rig.conflicts \ state.disabledConflicts,
     conflictsRemoved |-> state.disabledConflicts \ rig.conflicts,
     mcpAdded |-> { m.name : m \in rig.mcpServers } \ { m.name : m \in state.mcpServers },
     mcpRemoved |-> { m.name : m \in state.mcpServers } \ { m.name : m \in rig.mcpServers },
     hasChanges |-> \/ state.version # rig.version
                    \/ getAllPluginSources(rig) # state.plugins
                    \/ rig.conflicts # state.disabledConflicts
                    \/ { m.name : m \in rig.mcpServers } # { m.name : m \in state.mcpServers }]

\* computeDiff(state, rig)
computeDiff(state, rig) ==
    LET newPlugins == getAllPluginSources(rig)
        newMcp == { m.name : m \in rig.mcpServers }
        oldMcp == { m.name : m \in state.mcpServers }
        d == [versionChange |-> IF state.version # rig.version
                                THEN <<state.version, rig.version>>
                                ELSE NoVersionChange,
              pluginsAdded |-> newPlugins \ state.plugins,
              pluginsRemoved |-> state.plugins \ newPlugins,
              conflictsAdded |-> rig.conflicts \ state.disabledConflicts,
              conflictsRemoved |-> state.disabledConflicts \ rig.conflicts,
              mcpAdded |-> newMcp \ oldMcp,
              mcpRemoved |-> oldMcp \ newMcp]
    IN [versionChange |-> d.versionChange,
        pluginsAdded |-> d.pluginsAdded, pluginsRemoved |-> d.pluginsRemoved,
        conflictsAdded |-> d.conflictsAdded, conflictsRemoved |-> d.conflictsRemoved,
        mcpAdded |-> d.mcpAdded, mcpRemoved |-> d.mcpRemoved,
        hasChanges |-> \/ d.versionChange # NoVersionChange
                       \/ d.pluginsAdded # {} \/ d.pluginsRemoved # {}
                       \/ d.conflictsAdded # {} \/ d.conflictsRemoved # {}
                       \/ d.mcpAdded # {} \/ d.mcpRemoved # {}]

\* the plugins, conflicts and MCP servers applyDiff keeps from the old record
KeptAfterRemoval(state, diff) ==
    [plugins |-> state.plugins \ diff.pluginsRemoved,
     disabledConflicts |-> state.disabledConflicts \ diff.conflictsRemoved,
     mcpServers |-> { m \in state.mcpServers : m.name \notin diff.mcpRemoved }]

\* a partial rig that still holds every plugin of the rig
PartialRigWithAllPlugins(rig, diff) == rig

\* applyDiff: the partial rig with only the new plugins
PartialRig(rig, diff) ==
    [rig EXCEPT !.required = rig.required \cap diff.pluginsAdded,
                !.recommended = rig.recommended \cap diff.pluginsAdded]

\* applyDiff followed by setRigState(newState)
UpdateApply(diff, rig, state, active, fail) ==
    LET claude == "claude-code" \in active
        codex == "codex" \in active
        partialRig == PartialRig(rig, diff)
        pluginResults ==
            IF diff.pluginsAdded = {} THEN {}
            ELSE (IF claude THEN ClaudeInstallPlugins(partialRig, platform, fail) ELSE {})
                 \cup (IF codex THEN CodexInstallPlugins(partialRig, fail) ELSE {})
        conflictResults ==
            IF claude THEN ClaudeDisableConflicts(diff.conflictsAdded, fail) ELSE {}
        mcpResults ==
            IF claude
            THEN ClaudeInstallMcpServers({ m \in rig.mcpServers : m.name \in diff.mcpAdded },
                                         platform, fail)
            ELSE {}
        hasBehavioral == Declared(rig) # {}
        beh == IF claude /\ hasBehavioral THEN installBehavioral(rig, Files) ELSE NoBehavioral
        allResults == pluginResults \cup conflictResults \cup mcpResults \cup beh.results
        kept == KeptAfterRemoval(state, diff)
        newBehavioral == Ids({ r \in allResults : r.prefix = "behavioral:" }, "installed")
        newState ==
            [version |-> rig.version,
             plugins |-> kept.plugins
                         \cup Ids({ r \in allResults : r.prefix = "plugin:" }, "installed"),
             disabledConflicts |-> kept.disabledConflicts
                         \cup Ids({ r \in allResults : r.prefix = "conflict:" }, "disabled"),
             mcpServers |-> kept.mcpServers
                         \cup { m \in rig.mcpServers :
                                  m.name \in Ids({ r \in allResults : r.prefix = "mcp:" }, "installed") },
             behavioral |-> IF newBehavioral # {} THEN newBehavioral ELSE state.behavioral,
             marketplaces |-> state.marketplaces,
             envProfilePath |-> "undefined"]
        applied == PlatformAfterApply(platform, {}, pluginResults, conflictResults, mcpResults)
        after == PlatformAfterRemove(applied, diff.pluginsRemoved, diff.conflictsRemoved,
                                     diff.mcpRemoved, fail)
    IN /\ platform' = after
       /\ owned' = OwnedAfter(owned, platform, after)
       /\ written' = WrittenAfter(rig, beh.wrote)
       /\ behFile' = beh.behFile
       /\ sidecar' = beh.sidecar
       /\ rootFile' = beh.rootFile
       /\ UNCHANGED profile
       /\ stateFile' = setRigState(RigName, newState)
       /\ lastOp' = Log("update", "updated", "", FALSE, FALSE,
                        {"detect", "setRigState"}
                        \cup (IF diff.pluginsAdded # {} THEN {"installPlugins"} ELSE {})
                        \cup (IF diff.pluginsRemoved # {} THEN {"plugin uninstall"} ELSE {})
                        \cup (IF diff.conflictsAdded # {} THEN {"disableConflicts"} ELSE {})
                        \cup (IF diff.conflictsRemoved # {} THEN {"plugin enable"} ELSE {})
                        \cup (IF diff.mcpAdded # {} THEN {"installMcpServers"} ELSE {})
                        \cup (IF diff.mcpRemoved # {} THEN {"mcp remove"} ELSE {})
                        \cup (IF hasBehavioral THEN {"installBehavioral"} ELSE {}),
                        allResults)

\* updateCommand(name, {dryRun, yes}).  The source is fetched once the record
\* is found; updateCommand never calls cleanupCloneDir.
Update(dryRun, confirmed, active) ==
    /\ UNCHANGED <<manifest, procs>>
    /\ IF RigsLookupThrows
       THEN Untouched /\ lastOp' = Log("update", "thrown", "", FALSE, dryRun, {}, {})
       ELSE IF ~HasRigState(RigName)
       THEN Untouched /\ lastOp' = Log("update", "not-installed", "", FALSE, dryRun, {}, {})
       ELSE LET state == getRigState(RigName)
                diff == computeDiff(state, manifest)
            IN IF ~diff.hasChanges
               THEN Untouched /\ lastOp' = Log("update", "up-to-date", "", FALSE, dryRun, {}, {})
               ELSE IF dryRun
               THEN Untouched /\ lastOp' = Log("update", "dry-run", "", FALSE, dryRun,
                                              DryRunCalls("update"), {})
               ELSE IF active = {}
               THEN Untouched /\ lastOp' = Log("update", "no-platform", "", FALSE, dryRun, {"detect"}, {})
               ELSE IF ~confirmed
               THEN Untouched /\ lastOp' = Log("update", "aborted", "", FALSE, dryRun, {"detect"}, {})
               ELSE \E fail \in SUBSET (Units(manifest) \cup diff.pluginsRemoved
                                         \cup diff.conflictsRemoved \cup diff.mcpRemoved) :
                       UpdateApply(diff, manifest, state, active, fail)
    /\ dirs' = IF lastOp'.outcome \in {"thrown", "not-installed"}
               THEN dirs
               ELSE cloneToLocal(dirs)

\* the steps of uninstallCommand that follow the confirmation.  removeEnvBlock
\* has no try/catch around it: when the profile holds the block and
\* writeFileSync throws, the exception leaves uninstallCommand before the rig
\* directory is removed and before removeRigState.
UninstallApply(state, fail) ==
    LET after == PlatformAfterRemove(platform, state.plugins, state.disabledConflicts,
                                     { m.name : m \in state.mcpServers }, fail)
        hasEnv == state.envProfilePath # "undefined"
        envThrows == hasEnv /\ IsUnwritable(profile) /\ hasEnvBlock(profile)
    IN /\ platform' = after
       /\ owned' = OwnedAfter(owned, platform, after)
       /\ rootFile' = [a \in Assets |->
                         IF a \in state.behavioral THEN RemovePointer(rootFile[a])
                         ELSE rootFile[a]]
       /\ profile' = IF hasEnv /\ ~envThrows THEN removeEnvBlock(profile) ELSE profile
       /\ written' = [a \in Assets |->
                        IF envThrows /\ a \notin state.behavioral THEN written[a] ELSE NoFile]
       /\ behFile' = [a \in Assets |->
                        IF envThrows /\ a \notin state.behavioral THEN behFile[a] ELSE NoFile]
       /\ sidecar' = IF envThrows THEN sidecar ELSE [a \in Assets |-> NoHash]
       /\ stateFile' = IF envThrows THEN stateFile ELSE removeRigState(RigName)
       /\ lastOp' = Log("uninstall", IF envThrows THEN "thrown" ELSE "uninstalled",
                        "", FALSE, FALSE,
                        (IF envThrows THEN {} ELSE {"removeRigState"})
                        \cup (IF state.plugins # {} THEN {"plugin uninstall"} ELSE {})
                        \cup (IF state.disabledConflicts # {} THEN {"plugin enable"} ELSE {})
                        \cup (IF state.mcpServers # {} THEN {"mcp remove"} ELSE {})
                        \cup (IF hasEnv THEN {"removeEnvBlock"} ELSE {}),
                        {})

\* uninstallCommand(name, {yes})
Uninstall(confirmed) ==
    /\ UNCHANGED <<dirs, manifest, procs>>
    /\ IF RigsLookupThrows
       THEN Untouched /\ lastOp' = Log("uninstall", "thrown", "", FALSE, FALSE, {}, {})
       ELSE IF ~HasRigState(RigName)
       THEN Untouched /\ lastOp' = Log("uninstall", "not-installed", "", FALSE, FALSE, {}, {})
       ELSE LET state == getRigState(RigName)
            IN IF ~confirmed
               THEN Untouched /\ lastOp' = Log("uninstall", "aborted", "", FALSE, FALSE, {}, {})
               ELSE \E fail \in SUBSET (state.plugins \cup state.disabledConflicts
                                         \cup { m.name : m \in state.mcpServers }) :
                       UninstallApply(state, fail)

\* ------------------------------------------------------------- environment

\* the rig's author publishes another manifest at the source
Publish(m) ==
    /\ m # manifest
    /\ manifest' = m
    /\ Untouched
    /\ UNCHANGED <<procs, dirs>>
    /\ lastOp' = Log("publish", "", "", FALSE, FALSE, {}, {})

\* the user takes the write permission from the shell profile
ProtectProfile ==
    /\ profile # Absent
    /\ ~IsUnwritable(profile)
    /\ profile' = UnwritableProfile \o profile
    /\ UNCHANGED <<dirs, manifest, platform, owned, written, behFile, sidecar, rootFile, stateFile, procs>>
    /\ lastOp' = Log("protect", "", "", FALSE, FALSE, {}, {})

\* the user edits an installed behavioral file
UserEdits(a, content) ==
    /\ behFile[a] # NoFile
    /\ behFile[a] # content
    /\ behFile' = [behFile EXCEPT ![a] = content]
    /\ UNCHANGED <<dirs, manifest, platform, owned, written, sidecar, rootFile, profile, stateFile, procs>>
    /\ lastOp' = Log("edit", "", "", FALSE, FALSE, {}, {})

\* ------------------------------------------------------- specifications

NoAssets == [a \in Assets |-> "undeclared"]

BaseManifest ==
    [version |-> "1.0.0", required |-> RequiredIds, recommended |-> {},
     conflicts |-> {}, mcpServers |-> {}, marketplaces |-> {}, codex |-> "none",
     behavioral |-> NoAssets, environment |-> <<>>, tools |-> <<>>]

NoLog == Log("none", "", "", FALSE, FALSE, {}, {})

NothingOwned == [plugins |-> {}, disabled |-> {}, mcp |-> {}]

EmptyPlatform == [plugins |-> {}, disabled |-> {}, mcp |-> {}, marketplaces |-> {}]

\* nothing of the rig is installed yet
InitRig ==
    /\ stateFile = MissingStateFile
    /\ procs = [p \in Procs |-> Idle]
    /\ dirs = SourceDirs("local")
    /\ owned = NothingOwned
    /\ written = [a \in Assets |-> NoFile]
    /\ behFile = [a \in Assets |-> NoFile]
    /\ sidecar = [a \in Assets |-> NoHash]
    /\ lastOp = NoLog

\* the three commands, with their options drawn from the given sets
Commands(Forces, DryRuns, Minimals, Confirms, Actives) ==
    \/ \E force \in Forces, dryRun \in DryRuns, minimal \in Minimals,
          confirmed \in Confirms, active \in Actives :
          Install(force, dryRun, minimal, confirmed, active)
    \/ \E dryRun \in DryRuns, confirmed \in Confirms, active \in Actives :
          Update(dryRun, confirmed, active)
    \/ \E confirmed \in Confirms : Uninstall(confirmed)

\* ---- Spec: the install gate.  Every option of the commands; manifests that
\* differ in version.

Env1 == <<[key |-> "K", value |-> <<"v1">>]>>

GateManifests ==
    { [BaseManifest EXCEPT !.version = v, !.recommended = RecommendedIds,
                           !.behavioral = [NoAssets EXCEPT !["claude-md"] = "A"],
                           !.environment = Env1] :
        v \in Versions }

Init ==
    /\ InitRig
    /\ manifest \in GateManifests
    /\ platform = EmptyPlatform
    /\ rootFile = [a \in Assets |-> Absent]
    /\ profile = Absent

Next ==
    \/ Commands(BOOLEAN, BOOLEAN, BOOLEAN, BOOLEAN, SUBSET Adapters)
    \/ \E m \in GateManifests : Publish(m)

Spec == Init /\ [][Next]_vars

Proceeds(op) == op.outcome \notin {"already-installed", "suggest-update"}

SameVersion == HasRigState(RigName) /\ getRigState(RigName).version = manifest.version

\* C3 as stated: the gate of an install looks at the record, force and the two
\* version strings only: no record -> proceed; record and force -> proceed;
\* record, no force, equal versions -> no-op; record, no force, versions
\* differ -> suggest update.
C3_GateAsStated ==
    [][lastOp'.cmd = "install" =>
        /\ (~HasRigState(RigName) => Proceeds(lastOp') /\ lastOp'.gate = "ProceedFresh")
        /\ (HasRigState(RigName) /\ lastOp'.force =>
               Proceeds(lastOp') /\ lastOp'.gate = "ProceedForced")
        /\ (HasRigState(RigName) /\ ~lastOp'.force /\ SameVersion =>
               lastOp'.outcome = "already-installed")
        /\ (HasRigState(RigName) /\ ~lastOp'.force /\ ~SameVersion =>
               lastOp'.outcome = "suggest-update")]_vars

\* C3 amended: the last two rules hold when the run is not a dry run; with a
\* record, no force and --dry-run the gate is passed and the plan is shown.
C3_Gate ==
    [][lastOp'.cmd = "install" =>
        /\ (~HasRigState(RigName) => Proceeds(lastOp') /\ lastOp'.gate = "ProceedFresh")
        /\ (HasRigState(RigName) /\ lastOp'.force =>
               Proceeds(lastOp') /\ lastOp'.gate = "ProceedForced")
        /\ (HasRigState(RigName) /\ ~lastOp'.force /\ ~lastOp'.dryRun /\ SameVersion =>
               lastOp'.outcome = "already-installed")
        /\ (HasRigState(RigName) /\ ~lastOp'.force /\ ~lastOp'.dryRun /\ ~SameVersion =>
               lastOp'.outcome = "suggest-update")
        /\ (HasRigState(RigName) /\ ~lastOp'.force /\ lastOp'.dryRun =>
               lastOp'.outcome = "dry-run")]_vars

\* an install of another version was turned away with the advice to update
C3_Witness ==
    /\ lastOp.cmd = "install" /\ lastOp.outcome = "suggest-update"
    /\ HasRigState(RigName) /\ ~SameVersion

MutatingCalls ==
    {"addMarketplaces", "installPlugins", "disableConflicts", "installMcpServers",
     "installBehavioral", "installTools", "writeEnvBlock", "setRigState"}

\* C4: an install that finds a record, without --force and not as a dry run,
\* calls no adapter operation, writes no host file and leaves the state store
\* as it is, with equal and with different versions.
C4_GateReturnsUntouched ==
    [][(lastOp'.cmd = "install" /\ HasRigState(RigName)
        /\ ~lastOp'.force /\ ~lastOp'.dryRun) =>
        /\ lastOp'.calls \cap MutatingCalls = {}
        /\ lastOp'.results = {}
        /\ UNCHANGED <<platform, behFile, sidecar, rootFile, profile, stateFile>>]_vars

\* the gate has turned away an install of the recorded version
C4_Witness ==
    /\ lastOp.cmd = "install" /\ lastOp.outcome = "already-installed"
    /\ HasRigState(RigName) /\ profile # Absent

\* ---- SpecComponents: plugins, conflicts and MCP servers.  Confirmed runs on
\* claude-code, forced or not; manifests that differ in version, recommended
\* plugin, conflict and MCP server; the platform may hold the required plugin
\* or the MCP server before the rig comes.

ComponentManifests ==
    { [BaseManifest EXCEPT !.version = v, !.recommended = r, !.conflicts = c, !.mcpServers = m] :
        v \in Versions, r \in SUBSET RecommendedIds,
        c \in SUBSET ConflictIds, m \in SUBSET McpServers }

InitComponents ==
    /\ InitRig
    /\ manifest \in ComponentManifests
    /\ platform \in [plugins : SUBSET RequiredIds, disabled : {{}},
                     mcp : SUBSET { m.name : m \in McpServers }, marketplaces : {{}}]
    /\ rootFile = [a \in Assets |-> Absent]
    /\ profile = Absent

NextComponents ==
    \/ Commands(BOOLEAN, {FALSE}, {FALSE}, {TRUE}, {{"claude-code"}})
    \/ \E m \in ComponentManifests : Publish(m)

SpecComponents == InitComponents /\ [][NextComponents]_vars

Completed(op) ==
    \/ op.cmd = "install" /\ op.outcome = "installed"
    \/ op.cmd = "update" /\ op.outcome = "updated"

\* C1 as stated: after every install, forced re-install or update that
\* completes, the record lists exactly the plugins, disabled conflicts and MCP
\* servers this tool applied for the rig and that are still applied.
C1_RecordIsWhatIsApplied ==
    Completed(lastOp) =>
        /\ getRigState(RigName).plugins = owned.plugins
        /\ getRigState(RigName).disabledConflicts = owned.disabled
        /\ { m.name : m \in getRigState(RigName).mcpServers } = owned.mcp

\* C7 as stated: uninstall never uninstalls a plugin that was on the platform
\* before the rig was installed.
C7_UninstallSparesOlderPlugins ==
    [][lastOp'.cmd = "uninstall" =>
        (platform.plugins \ owned.plugins) \subseteq platform'.plugins]_vars

\* C5 as stated: after a confirmed uninstall completes, the shell profile holds
\* no tagged block of the rig, whatever installs, forced re-installs and
\* updates came before.
C5_UninstallRemovesEnvBlock ==
    (lastOp.cmd = "uninstall" /\ lastOp.outcome = "uninstalled") =>
        (profile = Absent \/ ~includes(profile, BEGIN_TAG))

\* C6 as stated: after a confirmed uninstall completes, no root file holds a
\* line with the rig's pointer tag and the namespaced behavioral files are gone.
C6_UninstallRemovesPointers ==
    (lastOp.cmd = "uninstall" /\ lastOp.outcome = "uninstalled") =>
        \A a \in Assets :
            /\ rootFile[a] = Absent \/ ~includes(rootFile[a], PointerLine)
            /\ behFile[a] = NoFile

\* ---- SpecBehavioral: behavioral files.  Confirmed runs on claude-code, forced
\* or not; manifests that differ in version and in the content of CLAUDE.md;
\* the user edits the installed file between runs.

Contents == {"A", "B"}

UserContents == {"B", "U"}

BehavioralManifests ==
    { [BaseManifest EXCEPT !.version = v,
                           !.behavioral = [NoAssets EXCEPT !["claude-md"] = c]] :
        v \in Versions, c \in Contents \cup {"missing"} }

InitBehavioral ==
    /\ InitRig
    /\ manifest \in BehavioralManifests
    /\ platform = EmptyPlatform
    /\ rootFile \in [Assets -> {Absent, <<"x", "n">>}]
    /\ profile = Absent

NextBehavioral ==
    \/ Commands(BOOLEAN, {FALSE}, {FALSE}, {TRUE}, {{"claude-code"}})
    \/ \E m \in BehavioralManifests : Publish(m)
    \/ \E a \in Assets, c \in UserContents : UserEdits(a, c)

SpecBehavioral == InitBehavioral /\ [][NextBehavioral]_vars

\* the step is a run of installBehavioral
RunsInstallBehavioral(op) == Completed(op) /\ "installBehavioral" \in op.calls

\* the user has edited the file since the tool last wrote it
EditedSinceWritten(a) == behFile[a] # NoFile /\ behFile[a] # written[a]

\* C2 as stated: in every run of installBehavioral, a behavioral file whose
\* content differs from what the tool last wrote there and from the content
\* about to be written is left as it is, on the first run after the edit and
\* on every later one.
C2_EditedFileNeverOverwritten ==
    [][RunsInstallBehavioral(lastOp') =>
        \A a \in Declared(manifest) :
            (EditedSinceWritten(a) /\ behFile[a] # manifest.behavioral[a])
                => behFile'[a] = behFile[a]]_vars

Refused(op, a) ==
    \E r \in op.results :
        /\ r.prefix = "behavioral:" /\ r.id = a
        /\ r.status = "skipped" /\ r.message = "locally modified"

\* C8: a write is refused (skipped, locally modified) exactly when the
\* destination exists, a hash is recorded for it, the hash of the content on
\* disk differs from the recorded hash and from the hash of the new content;
\* in every other case the file is written.
C8_RefusedIffModified ==
    [][RunsInstallBehavioral(lastOp') =>
        \A a \in Declared(manifest) :
            manifest.behavioral[a] # "missing" =>
                /\ Refused(lastOp', a) <=>
                      /\ behFile[a] # NoFile
                      /\ sidecar[a] # NoHash
                      /\ <<"sha256", behFile[a]>> # sidecar[a]
                      /\ behFile[a] # manifest.behavioral[a]
                /\ Refused(lastOp', a) => behFile'[a] = behFile[a]
                /\ ~Refused(lastOp', a) => behFile'[a] = manifest.behavioral[a]]_vars

\* a run of installBehavioral has refused to write over the user's edit U
C8_Witness ==
    /\ RunsInstallBehavioral(lastOp)
    /\ Refused(lastOp, "claude-md")
    /\ behFile["claude-md"] = "U"

\* C9 as stated: install --force overwrites a locally modified behavioral file
\* with the rig's content and records the hash of the written content.
C9_ForceOverwrites ==
    [][(lastOp'.cmd = "install" /\ lastOp'.force /\ RunsInstallBehavioral(lastOp')) =>
        \A a \in Declared(manifest) :
            (EditedSinceWritten(a) /\ manifest.behavioral[a] # "missing") =>
                /\ behFile'[a] = manifest.behavioral[a]
                /\ sidecar'[a] = sha256(manifest.behavioral[a])]_vars

\* ---- SpecEnv: the tagged block of the shell profile.  writeEnvBlock and
\* removeEnvBlock are called in any order on a profile that starts without a
\* block; values may hold the characters "$&" and "$$".

MaxProfileLen == 24

EnvValues == {<<"v1">>, <<"v2">>, <<"$&">>, <<"$$">>}

Envs == { <<[key |-> "K", value |-> v]>> : v \in EnvValues }

ShellNames == {"zsh", "fish"}

\* profiles without a block: missing, empty, ending in one or more newlines
\* or in a space, starting with blank lines, with a run of blank lines inside
InitialProfiles ==
    {Absent, <<>>, <<"x", "n">>, <<"x", "n", "n">>, <<"x", "s", "n">>,
     <<"n", "n", "n", "x">>, <<"x", "n", "n", "n", "n", "y", "n">>}

InitEnv ==
    /\ InitRig
    /\ manifest = BaseManifest
    /\ platform = EmptyPlatform
    /\ rootFile = [a \in Assets |-> Absent]
    /\ profile \in InitialProfiles

\* what a call on the profile was given and found: the env map, the shell and
\* the content before the call
EnvLog(cmd, outcome, env, shellName, before) ==
    [cmd |-> cmd, outcome |-> outcome, env |-> env, shellName |-> shellName,
     before |-> before]

\* writeEnvBlock(rigName, env, shell)
WriteEnv(env, shellName) ==
    /\ profile = Absent \/ Len(profile) <= MaxProfileLen
    /\ profile' = writeEnvBlock(profile, env, shellName)
    /\ UNCHANGED <<dirs, manifest, stateFile, platform, owned, written, behFile, sidecar, rootFile, procs>>
    /\ lastOp' = EnvLog("writeEnvBlock", "", env, shellName, profile)

\* removeEnvBlock(rigName, profilePath)
RemoveEnv ==
    /\ profile' = removeEnvBlock(profile)
    /\ UNCHANGED <<dirs, manifest, stateFile, platform, owned, written, behFile, sidecar, rootFile, procs>>
    /\ lastOp' = EnvLog("removeEnvBlock",
                        IF removeEnvBlockReturns(profile) THEN "true" ELSE "false",
                        <<>>, "", profile)

NextEnv ==
    \/ \E env \in Envs, shellName \in ShellNames : WriteEnv(env, shellName)
    \/ RemoveEnv

SpecEnv == InitEnv /\ [][NextEnv]_vars

\* number of times t occurs in content
RECURSIVE Count(_, _)
Count(content, t) ==
    IF content = <<>> THEN 0
    ELSE (IF Head(content) = t THEN 1 ELSE 0) + Count(Tail(content), t)

\* C10 as stated: from a profile without a block of the rig, any sequence of
\* writeEnvBlock and removeEnvBlock leaves at most one tagged block in the
\* profile: never a second begin marker, never a second end marker.
C10_AtMostOneBlock ==
    profile # Absent =>
        /\ Count(profile, BEGIN_TAG) <= 1
        /\ Count(profile, END_TAG) <= 1

\* the profile holds the block of env and nothing else but one final newline
ExactlyTheBlock(content, env, shellName) ==
    content = formatEnvBlock(env, shellName) \o <<"n">>

\* C11 as stated: writeEnvBlock into a missing or an empty profile leaves
\* exactly the block and one final newline; a second writeEnvBlock on that
\* file leaves exactly the block of the second env map.
C11_BlockAlone ==
    [][lastOp'.cmd = "writeEnvBlock" =>
        /\ lastOp'.before \in {Absent, <<>>} =>
               ExactlyTheBlock(profile', lastOp'.env, lastOp'.shellName)
        /\ (/\ lastOp.cmd = "writeEnvBlock"
            /\ ExactlyTheBlock(profile, lastOp.env, lastOp.shellName)) =>
               ExactlyTheBlock(profile', lastOp'.env, lastOp'.shellName)]_vars

\* blank-line normalization: runs of blank lines collapsed, trailing white
\* space reduced to one final newline; a missing file counts as empty
Normalized(content) ==
    trimEnd(CollapseNewlines(IF content = Absent THEN <<>> ELSE content)) \o <<"n">>

\* C12: on a profile without a block, writeEnvBlock followed at once by
\* removeEnvBlock reports a removal and leaves the profile equal to the
\* original up to blank-line normalization.
C12_WriteRemoveRoundTrip ==
    [][(/\ lastOp.cmd = "writeEnvBlock"
        /\ ~hasEnvBlock(lastOp.before)
        /\ lastOp'.cmd = "removeEnvBlock") =>
           /\ lastOp'.outcome = "true"
           /\ profile' = Normalized(lastOp.before)]_vars

\* a round trip over a profile that had lines and blank runs of its own
C12_Witness ==
    /\ lastOp.cmd = "removeEnvBlock"
    /\ lastOp.outcome = "true"
    /\ \E env \in Envs, shellName \in ShellNames :
           lastOp.before =
               writeEnvBlock(<<"x", "n", "n", "n", "n", "y", "n">>, env, shellName)
    /\ profile = <<"x", "n", "n", "y", "n">>

\* C13 as stated: writeEnvBlock twice in a row with the same env map leaves
\* the profile as it was after the first call.
C13_WriteIdempotent ==
    [][(/\ lastOp.cmd = "writeEnvBlock"
        /\ lastOp'.cmd = "writeEnvBlock"
        /\ lastOp'.env = lastOp.env
        /\ lastOp'.shellName = lastOp.shellName) =>
           profile' = profile]_vars

\* ---- SpecTopo: the install order of plugins.  The manifest holds a list of
\* plugin refs, each a source and the list of sources it depends on;
\* installPlugins sorts the list with topoSortPlugins.

MaxRefs == 3

Sources == {"a", "b", "c"}

\* depends lists: one source (the ref's own among them), or two other
\* sources in either order
DependsOf(source) ==
    LET others == Sources \ {source}
    IN {<<>>} \cup { <<d>> : d \in Sources }
       \cup { p \in others \X others : p[1] # p[2] }

PluginEntries ==
    UNION { { [source |-> x, depends |-> d] : d \in DependsOf(x) } : x \in Sources }

PluginLists == UNION { [1..n -> PluginEntries] : n \in 0..MaxRefs }

\* new Map(plugins.map(p => [p.source, p])): the last entry of a source wins
HasSource(plugins, source) == \E i \in 1..Len(plugins) : plugins[i].source = source

bySource(plugins, source) ==
    LET last == CHOOSE i \in 1..Len(plugins) :
                    /\ plugins[i].source = source
                    /\ \A j \in (i + 1)..Len(plugins) : plugins[j].source # source
    IN plugins[last]

RECURSIVE visit(_, _, _)
RECURSIVE VisitEach(_, _, _)

\* a visit that leaves out a ref that names itself in its depends
visitDroppingSelfDependent(plugins, source, st) ==
    IF source \in st.visited THEN st
    ELSE LET seen == [st EXCEPT !.visited = @ \cup {source}]
         IN IF ~HasSource(plugins, source) THEN seen
            ELSE LET plugin == bySource(plugins, source)
                     after == VisitEach(plugins, plugin.depends, seen)
                 IN IF \E k \in 1..Len(plugin.depends) : plugin.depends[k] = source
                    THEN after
                    ELSE [after EXCEPT !.ordered = Append(@, plugin)]

\* visit(source) with the visited set and the ordered list it works on
visit(plugins, source, st) ==
    IF source \in st.visited THEN st
    ELSE LET seen == [st EXCEPT !.visited = @ \cup {source}]
         IN IF ~HasSource(plugins, source) THEN seen
            ELSE LET plugin == bySource(plugins, source)
                     after == VisitEach(plugins, plugin.depends, seen)
                 IN [after EXCEPT !.ordered = Append(@, plugin)]

\* a loop that goes through the sources from the last to the first
VisitEachBackwards(plugins, sources, st) ==
    IF sources = <<>> THEN st
    ELSE visit(plugins, Head(sources), VisitEach(plugins, Tail(sources), st))

\* for (const dep of depends) visit(dep)
VisitEach(plugins, sources, st) ==
    IF sources = <<>> THEN st
    ELSE VisitEach(plugins, Tail(sources), visit(plugins, Head(sources), st))

\* a sort that returns the list as it came
topoSortPluginsKeepsOrder(plugins) == plugins

\* for (const plugin of plugins) visit(plugin.source)
topoSortPlugins(plugins) ==
    VisitEach(plugins, [i \in 1..Len(plugins) |-> plugins[i].source],
              [visited |-> {}, ordered |-> <<>>]).ordered

TopoManifests ==
    { [version |-> "1.0.0", plugins |-> l, conflicts |-> {}, mcpServers |-> {},
       marketplaces |-> {}, codex |-> "none", behavioral |-> NoAssets,
       environment |-> <<>>, tools |-> <<>>] : l \in PluginLists }

InitTopo ==
    /\ InitRig
    /\ manifest \in TopoManifests
    /\ platform = EmptyPlatform
    /\ rootFile = [a \in Assets |-> Absent]
    /\ profile = Absent

\* installPlugins sorts the plugins of the manifest
SortPlugins ==
    /\ lastOp' = [cmd |-> "topoSortPlugins", plugins |-> manifest.plugins,
                  ordered |-> topoSortPlugins(manifest.plugins)]
    /\ UNCHANGED <<dirs, manifest, stateFile, platform, owned, written, behFile, sidecar,
                   rootFile, profile, procs>>

NextTopo == SortPlugins

SpecTopo == InitTopo /\ [][NextTopo]_vars

\* the pairs <<source, dependency>> the refs of the list declare
DependsPairs(plugins) ==
    UNION { { <<plugins[i].source, plugins[i].depends[k]>> :
                k \in 1..Len(plugins[i].depends) } : i \in 1..Len(plugins) }

\* x reaches y along declared dependencies in at most n steps
RECURSIVE Reaches(_, _, _, _)
Reaches(pairs, x, y, n) ==
    /\ n > 0
    /\ \/ <<x, y>> \in pairs
       \/ \E z \in Sources : <<x, z>> \in pairs /\ Reaches(pairs, z, y, n - 1)

Acyclic(plugins) ==
    \A x \in Sources : ~Reaches(DependsPairs(plugins), x, x, Cardinality(Sources))

FirstIndex(plugins, source) ==
    CHOOSE i \in 1..Len(plugins) :
        /\ plugins[i].source = source
        /\ \A j \in 1..(i - 1) : plugins[j].source # source

\* C14: for a list whose declared dependencies are acyclic, every ref of the
\* output comes after each of its dependencies that is a source of the input
\* (dependencies that are not are ignored), and the output holds one ref of
\* the input for each source of the input.
C14_DependenciesFirst ==
    (lastOp.cmd = "topoSortPlugins" /\ Acyclic(lastOp.plugins)) =>
        LET plugins == lastOp.plugins
            ordered == lastOp.ordered
        IN /\ \A j \in 1..Len(ordered) : \A k \in 1..Len(ordered[j].depends) :
                  HasSource(plugins, ordered[j].depends[k]) =>
                      \E i \in 1..(j - 1) : ordered[i].source = ordered[j].depends[k]
           /\ \A j \in 1..Len(ordered) : \E i \in 1..Len(plugins) : plugins[i] = ordered[j]
           /\ \A i \in 1..Len(plugins) : HasSource(ordered, plugins[i].source)
           /\ \A i, j \in 1..Len(ordered) : ordered[i].source = ordered[j].source => i = j

\* C depends on B and B on A, given as C, B, A: sorted to A, B, C
C14_Witness ==
    /\ lastOp.cmd = "topoSortPlugins"
    /\ lastOp.plugins = <<[source |-> "c", depends |-> <<"b">>],
                          [source |-> "b", depends |-> <<"a">>],
                          [source |-> "a", depends |-> <<>>]>>
    /\ lastOp.ordered = <<[source |-> "a", depends |-> <<>>],
                          [source |-> "b", depends |-> <<"a">>],
                          [source |-> "c", depends |-> <<"b">>]>>

NotDependedOn(plugins, source) ==
    \A i \in 1..Len(plugins) : \A k \in 1..Len(plugins[i].depends) :
        plugins[i].depends[k] # source

RigNames == {RigName, "other"}

StoreRecords == { [NoRigState EXCEPT !.version = v] : v \in Versions }

StoreManifests == { [BaseManifest EXCEPT !.version = "1.0.0"] }

InitStore ==
    /\ InitRig
    /\ manifest \in StoreManifests
    /\ platform = EmptyPlatform
    /\ rootFile = [a \in Assets |-> Absent]
    /\ profile = Absent

StoreUntouched ==
    UNCHANGED <<dirs, manifest, platform, owned, written, behFile, sidecar, rootFile, profile>>

\* the first half of setRigState / removeRigState: const state = loadState()
BeginCall(p, kind, name, rigState) ==
    /\ procs[p].pc = "idle"
    /\ procs' = [procs EXCEPT ![p] = [pc |-> "loaded", kind |-> kind, name |-> name,
                                      rigState |-> rigState, rigs |-> loadState]]
    /\ UNCHANGED stateFile
    /\ StoreUntouched
    /\ lastOp' = [cmd |-> "loadState", proc |-> p, loaded |-> loadState]

\* the second half: the change to the loaded document, then saveState(state)
FinishCall(p) ==
    /\ procs[p].pc = "loaded"
    /\ stateFile' = saveState(Saved(procs[p]))
    /\ procs' = [procs EXCEPT ![p] = Idle]
    /\ StoreUntouched
    /\ lastOp' = [cmd |-> IF procs[p].kind = "set" THEN "setRigState" ELSE "removeRigState",
                  proc |-> p, name |-> procs[p].name, rigState |-> procs[p].rigState,
                  loaded |-> procs[p].rigs, found |-> loadState]

\* the bytes of the file are damaged: JSON.parse will throw on them
Damage ==
    /\ stateFile.exists /\ stateFile.parses
    /\ stateFile' = [stateFile EXCEPT !.parses = FALSE]
    /\ UNCHANGED procs
    /\ StoreUntouched
    /\ lastOp' = [cmd |-> "damage", proc |-> ""]

NextStore ==
    \/ \E p \in Procs, name \in RigNames, rigState \in StoreRecords :
          BeginCall(p, "set", name, rigState)
    \/ \E p \in Procs, name \in RigNames : BeginCall(p, "remove", name, NoRigState)
    \/ \E p \in Procs : FinishCall(p)
    \/ Damage
    \/ Install(FALSE, FALSE, FALSE, TRUE, {"claude-code"})

SpecStore == InitStore /\ [][NextStore]_vars

StoreCall == {"setRigState", "removeRigState"}

EntryOf(rigs, name) == { e.state : e \in { x \in rigs : x.name = name } }

\* C17: a setRigState / removeRigState that nothing interleaves with (the file
\* holds at the save what the call loaded) leaves the record of its own name
\* equal to the argument, or absent; every other name keeps the record it had;
\* the file afterwards exists, parses, holds one record per name at most, and
\* loadState returns exactly the saved map.
C17_PutRemoveFrame ==
    [][ (lastOp'.cmd \in StoreCall /\ lastOp'.loaded = lastOp'.found) =>
          /\ stateFile'.exists /\ stateFile'.parses
          /\ loadState' = stateFile'.rigs
          /\ \A n \in RigNames : Cardinality(EntryOf(loadState', n)) <= 1
          /\ lastOp'.cmd = "setRigState" =>
                EntryOf(loadState', lastOp'.name) = {lastOp'.rigState}
          /\ lastOp'.cmd = "removeRigState" => EntryOf(loadState', lastOp'.name) = {}
          /\ \A n \in RigNames \ {lastOp'.name} :
                EntryOf(loadState', n) = EntryOf(loadState, n) ]_vars

\* a setRigState has replaced an earlier, different record of its name while
\* the other rig's record was in the file
C17_Witness ==
    /\ lastOp.cmd = "setRigState"
    /\ lastOp.loaded = lastOp.found
    /\ EntryOf(lastOp.loaded, lastOp.name) # {}
    /\ lastOp.rigState \notin EntryOf(lastOp.loaded, lastOp.name)
    /\ getRigState(lastOp.name) = lastOp.rigState
    /\ \E n \in RigNames \ {lastOp.name} : HasRigState(n)

\* C18: while the state file is missing or does not parse, loadState is the
\* empty map, getRigState finds no rig, and an install goes through the gate
\* as a fresh install and installs.
C18_FailOpen ==
    [][ (~stateFile.exists \/ ~stateFile.parses) =>
          /\ loadState = {}
          /\ \A n \in RigNames : ~HasRigState(n)
          /\ lastOp'.cmd = "install" =>
                (lastOp'.gate = "ProceedFresh" /\ lastOp'.outcome = "installed") ]_vars

\* a call has loaded the empty map from a damaged file that holds this rig's record
C18_Witness ==
    /\ lastOp.cmd = "loadState"
    /\ stateFile.exists /\ ~stateFile.parses
    /\ \E e \in stateFile.rigs : e.name = RigName
    /\ lastOp.loaded = {}
    /\ procs[lastOp.proc].rigs = {}

\* C19: the save of setRigState never looks at the file: whatever the file
\* holds by then, it succeeds and the file afterwards is the map the call
\* loaded with its own record put in, so a record another invocation saved in
\* between is gone.
C19_SaveOverwritesWhole ==
    [][ lastOp'.cmd = "setRigState" =>
          /\ stateFile'.exists /\ stateFile'.parses
          /\ EntryOf(loadState', lastOp'.name) = {lastOp'.rigState}
          /\ \A n \in RigNames \ {lastOp'.name} :
                EntryOf(loadState', n) = EntryOf(lastOp'.loaded, n) ]_vars

\* both invocations have completed; the later writer found the other rig's
\* record in the file, had not loaded it, and the file no longer holds it
C19_Witness ==
    /\ lastOp.cmd = "setRigState"
    /\ \A p \in Procs : procs[p].pc = "idle"
    /\ HasRigState(lastOp.name)
    /\ \E n \in RigNames \ {lastOp.name} :
          /\ EntryOf(lastOp.found, n) # {}
          /\ EntryOf(lastOp.loaded, n) = {}
          /\ ~HasRigState(n)

\* ---- SpecPhases: the order of the calls of one install.  Rigs with or
\* without a conflict, behavioral file, environment and codex install script;
\* either or both adapters detected.

PhaseManifests ==
    { [BaseManifest EXCEPT !.conflicts = c, !.codex = x,
                           !.behavioral = [NoAssets EXCEPT !["claude-md"] = b],
                           !.environment = e] :
        c \in SUBSET ConflictIds, x \in {"none", "script"},
        b \in {"undeclared", "A"}, e \in {<< >>, Env1} }

InitPhases ==
    /\ InitRig
    /\ manifest \in PhaseManifests
    /\ platform = EmptyPlatform
    /\ rootFile = [a \in Assets |-> Absent]
    /\ profile = Absent

NextPhases ==
    \/ \E active \in SUBSET Adapters : Install(TRUE, FALSE, FALSE, TRUE, active)
    \/ \E m \in PhaseManifests : Publish(m)

SpecPhases == InitPhases /\ [][NextPhases]_vars

\* the phase of a call in the order the claim gives; setRigState is none of them
Phase(call) ==
    CASE call = "addMarketplaces" -> 1
      [] call = "installPlugins" -> 2
      [] call = "disableConflicts" -> 3
      [] call = "installMcpServers" -> 4
      [] call = "installBehavioral" -> 5
      [] call = "installTools" -> 6
      [] call = "writeEnvBlock" -> 7
      [] call = "verify" -> 8
      [] OTHER -> 0

\* C20 as stated: in the calls of one install that work on some unit, no call
\* of an earlier phase comes after a call of a later phase, whichever adapters
\* are active.
C20_PhaseOrderAsStated ==
    lastOp.cmd = "install" =>
        \A i, j \in 1..Len(lastOp.order) :
            (/\ i < j
             /\ lastOp.order[i].units # {} /\ lastOp.order[j].units # {}
             /\ Phase(lastOp.order[i].call) # 0 /\ Phase(lastOp.order[j].call) # 0)
            => Phase(lastOp.order[i].call) <= Phase(lastOp.order[j].call)

\* C20 amended: the calls of one install come one after the other; the five
\* adapter phases run in the phase order for claude-code and then again in
\* that order for codex; tools, environment block and verification come after
\* the calls of every adapter, in that order.
C20_PhaseOrderPerAdapter ==
    lastOp.cmd = "install" =>
        \A i, j \in 1..Len(lastOp.order) :
            LET a == lastOp.order[i]
                b == lastOp.order[j]
            IN (i < j /\ Phase(a.call) # 0 /\ Phase(b.call) # 0) =>
                  /\ (a.adapter = b.adapter \/ Phase(a.call) > 5 \/ Phase(b.call) > 5)
                        => Phase(a.call) <= Phase(b.call)
                  /\ (a.adapter # b.adapter /\ Phase(a.call) <= 5 /\ Phase(b.call) <= 5)
                        => (a.adapter = "claude-code" /\ b.adapter = "codex")

\* an install with both adapters has run the codex install script after the
\* claude-code adapter wrote the behavioral files
C20_Witness ==
    /\ lastOp.cmd = "install" /\ lastOp.outcome = "installed"
    /\ \E i, j \in 1..Len(lastOp.order) :
          /\ i < j
          /\ lastOp.order[i] = Call("installBehavioral", "claude-code", {"claude-md"})
          /\ lastOp.order[j] = Call("installPlugins", "codex", {"codex-install-script"})
    /\ \E k \in 1..Len(lastOp.order) : lastOp.order[k].call = "writeEnvBlock"

\* the sources that lie on a cycle of the declared dependencies
OnCycle(plugins) ==
    { x \in Sources : Reaches(DependsPairs(plugins), x, x, Cardinality(Sources)) }

\* C28: for a list whose declared dependencies hold a cycle (a ref that
\* depends on itself included) topoSortPlugins returns a list, and the list
\* holds, for every source of the input, exactly one ref, the input's ref of
\* that source, and nothing else.
C28_CycleTerminatesComplete ==
    (lastOp.cmd = "topoSortPlugins" /\ OnCycle(lastOp.plugins) # {}) =>
        LET plugins == lastOp.plugins
            ordered == lastOp.ordered
        IN /\ \A i \in 1..Len(plugins) :
                  Cardinality({ j \in 1..Len(ordered) :
                                  ordered[j].source = plugins[i].source }) = 1
           /\ \A j \in 1..Len(ordered) :
                  /\ HasSource(plugins, ordered[j].source)
                  /\ ordered[j] = bySource(plugins, ordered[j].source)

\* A depends on itself, B and C on each other: all three are in the output
C28_Witness ==
    /\ lastOp.cmd = "topoSortPlugins"
    /\ lastOp.plugins = <<[source |-> "a", depends |-> <<"a">>],
                          [source |-> "b", depends |-> <<"c">>],
                          [source |-> "c", depends |-> <<"b">>]>>
    /\ Len(lastOp.ordered) = 3

\* C29 as stated: when the declared dependencies hold a cycle, the refs on a
\* cycle are in the output in the order in which their sources come in the input.
C29_CycleKeepsInputOrder ==
    (lastOp.cmd = "topoSortPlugins" /\ OnCycle(lastOp.plugins) # {}) =>
        \A i, j \in 1..Len(lastOp.ordered) :
            (/\ i < j
             /\ lastOp.ordered[i].source \in OnCycle(lastOp.plugins)
             /\ lastOp.ordered[j].source \in OnCycle(lastOp.plugins)) =>
                FirstIndex(lastOp.plugins, lastOp.ordered[i].source)
                    < FirstIndex(lastOp.plugins, lastOp.ordered[j].source)

\* ---- SpecSource: resolveSource.  An input is a list of tokens: "/" and "."
\* are themselves, "w" is a character of [a-zA-Z0-9_-], ":" any other
\* character, and "S" / "H" at the head are the texts "https://github.com" /
\* "http://github.com".  Whether the input names something on disk is for the
\* file system to say.

MaxInputLen == 5

Tokens == {"/", ".", "w", ":"}

Schemes == {"S", "H"}

SourceInputs ==
    UNION { [1..n -> Tokens] : n \in 1..MaxInputLen }
    \cup UNION { { <<h>> \o t : t \in [1..n -> Tokens] } :
                    h \in Schemes, n \in 0..(MaxInputLen - 1) }

NoPart == << >>

LocalSource(input) ==
    [type |-> "local", path |-> input, owner |-> NoPart, repo |-> NoPart, url |-> NoPart]

\* url: `https://github.com/${owner}/${repo}.git`
GitHubSource(owner, repo) ==
    [type |-> "github", path |-> NoPart, owner |-> owner, repo |-> repo,
     url |-> <<"S", "/">> \o owner \o <<"/">> \o repo \o <<".git">>]

StartsWith(input, prefix) ==
    /\ Len(input) >= Len(prefix)
    /\ SubSeq(input, 1, Len(prefix)) = prefix

\* input.startsWith("/") || input.startsWith("./") || input.startsWith("../")
IsExplicitPath(input) ==
    \/ StartsWith(input, <<"/">>)
    \/ StartsWith(input, <<".", "/">>)
    \/ StartsWith(input, <<".", ".", "/">>)

\* the longest run of tokens outside stop that starts at index from
RunEnd(input, from, stop) ==
    CHOOSE k \in (from - 1)..Len(input) :
        /\ \A i \in from..k : input[i] \notin stop
        /\ k = Len(input) \/ input[k + 1] \in stop

\* /^https?:\/\/github\.com\/([^/]+)\/([^/.]+)/
GhUrlOwnerEnd(input) == RunEnd(input, 3, {"/"})

GhUrlRepoEnd(input) == RunEnd(input, GhUrlOwnerEnd(input) + 2, {"/", "."})

ghUrlMatch(input) ==
    /\ Len(input) >= 5
    /\ input[1] \in Schemes
    /\ input[2] = "/"
    /\ GhUrlOwnerEnd(input) >= 3
    /\ GhUrlOwnerEnd(input) + 2 <= Len(input)
    /\ input[GhUrlOwnerEnd(input) + 1] = "/"
    /\ GhUrlRepoEnd(input) >= GhUrlOwnerEnd(input) + 2

\* /^([a-zA-Z0-9_.-]+)\/([a-zA-Z0-9_.-]+)$/
ShortSlash(input) == CHOOSE k \in 1..Len(input) : input[k] = "/"

shortMatch(input) ==
    /\ Cardinality({ k \in 1..Len(input) : input[k] = "/" }) = 1
    /\ ShortSlash(input) > 1
    /\ ShortSlash(input) < Len(input)
    /\ \A k \in 1..Len(input) : input[k] \in {"w", ".", "/"}

\* resolveSource(input), with the answer of existsSync(input)
resolveSource(input, existsSync) ==
    IF IsExplicitPath(input) THEN LocalSource(input)
    ELSE IF ghUrlMatch(input)
    THEN GitHubSource(SubSeq(input, 3, GhUrlOwnerEnd(input)),
                      SubSeq(input, GhUrlOwnerEnd(input) + 2, GhUrlRepoEnd(input)))
    ELSE IF existsSync THEN LocalSource(input)
    ELSE IF shortMatch(input)
    THEN GitHubSource(SubSeq(input, 1, ShortSlash(input) - 1),
                      SubSeq(input, ShortSlash(input) + 1, Len(input)))
    ELSE LocalSource(input)

\* the source argument of a command and what existsSync says of it
SourceArgs == [source : SourceInputs, onDisk : BOOLEAN]

InitSource ==
    /\ InitRig
    /\ manifest \in SourceArgs
    /\ platform = EmptyPlatform
    /\ rootFile = [a \in Assets |-> Absent]
    /\ profile = Absent

\* a command resolves its source argument
ResolveSource ==
    /\ lastOp' = [cmd |-> "resolveSource", input |-> manifest.source,
                  existsSync |-> manifest.onDisk,
                  result |-> resolveSource(manifest.source, manifest.onDisk)]
    /\ UNCHANGED <<dirs, manifest, stateFile, platform, owned, written, behFile, sidecar,
                   rootFile, profile, procs>>

NextSource == ResolveSource

SpecSource == InitSource /\ [][NextSource]_vars

\* C24 as stated: the first rule that matches, in the order explicit path,
\* path that exists on disk, GitHub URL, owner/repo shorthand, decides the
\* type, local where none matches; a github result has the url
\* https://github.com/<owner>/<repo>.git.
C24_PriorityAsStated ==
    lastOp.cmd = "resolveSource" =>
        /\ lastOp.result.type =
              (IF IsExplicitPath(lastOp.input) \/ lastOp.existsSync THEN "local"
               ELSE IF ghUrlMatch(lastOp.input) \/ shortMatch(lastOp.input) THEN "github"
               ELSE "local")
        /\ lastOp.result.type = "github" =>
              lastOp.result.url = <<"S", "/">> \o lastOp.result.owner \o <<"/">>
                                      \o lastOp.result.repo \o <<".git">>

\* ---- SpecTools: installTools over the tools of the manifest

MaxTools == 2

ToolNames == {"t1", "t2"}

ToolEntries == [name : ToolNames, optional : BOOLEAN, outcome : ToolOutcomes]

ToolLists == UNION { [1..n -> ToolEntries] : n \in 0..MaxTools }

ToolManifests == { [BaseManifest EXCEPT !.tools = l] : l \in ToolLists }

InitTools ==
    /\ InitRig
    /\ manifest \in ToolManifests
    /\ platform = EmptyPlatform
    /\ rootFile = [a \in Assets |-> Absent]
    /\ profile = Absent

\* installCommand calls installTools
InstallTools(includeOptional) ==
    /\ lastOp' = [cmd |-> "installTools", tools |-> manifest.tools,
                  includeOptional |-> includeOptional,
                  results |-> installTools(manifest.tools, includeOptional).results,
                  ran |-> installTools(manifest.tools, includeOptional).ran]
    /\ UNCHANGED <<dirs, manifest, stateFile, platform, owned, written, behFile, sidecar,
                   rootFile, profile, procs>>

NextTools == \E includeOptional \in BOOLEAN : InstallTools(includeOptional)

SpecTools == InitTools /\ [][NextTools]_vars

InstallRan(ran) == \E k \in 1..Len(ran) : ran[k] = "install"

\* C25: installTools gives one result per declared tool, in the order of
\* the list.  The install command of a tool runs exactly when its check failed
\* and the tool is required or includeOptional is set.  A tool whose check
\* succeeds is skipped; an optional tool without includeOptional is skipped;
\* a tool is installed exactly when its install command ran, exited 0, and
\* the check run after it succeeded; otherwise it is failed.
C25_ToolResults ==
    lastOp.cmd = "installTools" =>
        /\ Len(lastOp.results) = Len(lastOp.tools)
        /\ \A i \in 1..Len(lastOp.tools) :
              LET tool == lastOp.tools[i]
                  result == lastOp.results[i]
                  wanted == ~tool.optional \/ lastOp.includeOptional
              IN /\ result.prefix = "tool:" /\ result.id = tool.name
                 /\ InstallRan(lastOp.ran[i]) <=> (tool.outcome # "present" /\ wanted)
                 /\ tool.outcome = "present" => result.status = "skipped"
                 /\ (tool.optional /\ ~lastOp.includeOptional) => result.status = "skipped"
                 /\ result.status = "installed" <=>
                       (InstallRan(lastOp.ran[i]) /\ tool.outcome = "zero-works")
                 /\ result.status \in {"skipped", "installed", "failed"}
                 /\ result.status = "failed" <=>
                       (InstallRan(lastOp.ran[i]) /\ tool.outcome # "zero-works")

\* without includeOptional: an optional tool that is missing was skipped and a
\* required one that is missing was installed
C25_Witness ==
    /\ lastOp.cmd = "installTools"
    /\ ~lastOp.includeOptional
    /\ lastOp.tools = <<[name |-> "t1", optional |-> TRUE, outcome |-> "zero-works"],
                        [name |-> "t2", optional |-> FALSE, outcome |-> "zero-works"]>>
    /\ lastOp.results[1].status = "skipped"
    /\ lastOp.results[2].status = "installed"
    /\ ~InstallRan(lastOp.ran[1])

RemovingCalls == {"plugin uninstall", "plugin enable", "mcp remove", "removeEnvBlock", "removeRigState"}

\* C23: an install or update run as a dry run calls no adapter operation that
\* registers, installs, disables, configures or removes, runs no tool command,
\* gives no result, and leaves the platform, the behavioral files, the root
\* files, the shell profile and the state file as they are, with and without
\* a record of the rig.
C23_DryRunChangesNothing ==
    [][(lastOp'.cmd \in {"install", "update"} /\ lastOp'.dryRun) =>
        /\ lastOp'.calls \cap (MutatingCalls \cup RemovingCalls) = {}
        /\ lastOp'.results = {}
        /\ UNCHANGED <<platform, behFile, sidecar, rootFile, profile, stateFile>>]_vars

\* a dry run of install has shown its plan for a rig that is recorded with
\* another version and whose environment block is in the profile
C23_Witness ==
    /\ lastOp.cmd = "install" /\ lastOp.dryRun /\ lastOp.outcome = "dry-run"
    /\ ~lastOp.force
    /\ HasRigState(RigName) /\ ~SameVersion
    /\ profile # Absent

\* the units a run gave a result for, and those among them that did not succeed
\* (a conflict that could not be disabled is reported as skipped)
Attempted(results) == { <<r.prefix, r.id>> : r \in results }

NotDone(results) ==
    { <<r.prefix, r.id>> :
        r \in { x \in results : \/ x.status = "failed"
                                \/ x.prefix = "conflict:" /\ x.status = "skipped" } }

\* C22 as stated: when an install that completed is followed by the same
\* install command with the same arguments, every unit that did not succeed
\* in the first run is attempted in the second.
C22_RerunRetriesAsStated ==
    [][(/\ lastOp.cmd = "install" /\ lastOp.outcome = "installed"
        /\ lastOp'.cmd = "install"
        /\ lastOp'.force = lastOp.force /\ lastOp'.dryRun = lastOp.dryRun) =>
        NotDone(lastOp.results) \subseteq Attempted(lastOp'.results)]_vars

\* C22 amended: a completed install gives each unit it attempts one result
\* and no unit to two calls; when it is followed by another install of the
\* same manifest, the units that did not succeed are attempted again if the
\* second run has --force, and without --force the second run is turned away
\* at the gate and attempts nothing.
C22_RerunRetriesWithForce ==
    [][(lastOp'.cmd = "install" /\ lastOp'.outcome = "installed") =>
          /\ \A u \in Attempted(lastOp'.results) :
                Cardinality({ r \in lastOp'.results : <<r.prefix, r.id>> = u }) = 1
          /\ \A i, j \in 1..Len(lastOp'.order) :
                i # j => lastOp'.order[i].units \cap lastOp'.order[j].units = {}]_vars
    /\ [][(/\ lastOp.cmd = "install" /\ lastOp.outcome = "installed"
           /\ lastOp'.cmd = "install") =>
          IF lastOp'.force
          THEN /\ lastOp'.outcome = "installed"
               /\ NotDone(lastOp.results) \subseteq Attempted(lastOp'.results)
          ELSE /\ lastOp'.results = {}
               /\ lastOp'.calls \cap MutatingCalls = {}]_vars

\* the same install command was run again after the required plugin had
\* failed: it was turned away, and the plugin is neither recorded nor installed
C22_Witness ==
    /\ lastOp.cmd = "install" /\ lastOp.outcome = "already-installed" /\ ~lastOp.force
    /\ HasRigState(RigName)
    /\ \E p \in manifest.required :
          p \notin getRigState(RigName).plugins /\ p \notin platform.plugins

\* C26 as stated: a completed update gives exactly one result for every unit
\* it attempts: each plugin, conflict and MCP server it adds and each plugin
\* it uninstalls, conflict it re-enables and MCP server it removes.
C26_OneResultPerUnit ==
    [][(lastOp'.cmd = "update" /\ lastOp'.outcome = "updated") =>
          LET diff == computeDiff(getRigState(RigName), manifest)
              ResultsFor(prefix, id) ==
                  { r \in lastOp'.results : r.prefix = prefix /\ r.id = id }
          IN /\ \A u \in diff.pluginsAdded \cup diff.pluginsRemoved :
                   Cardinality(ResultsFor("plugin:", u)) = 1
             /\ \A u \in diff.conflictsAdded \cup diff.conflictsRemoved :
                   Cardinality(ResultsFor("conflict:", u)) = 1
             /\ \A u \in diff.mcpAdded \cup diff.mcpRemoved :
                   Cardinality(ResultsFor("mcp:", u)) = 1]_vars

\* C30: a completed update hands to installPlugins, disableConflicts and
\* installMcpServers only what the diff lists as added, so every result is for
\* an added component; on the platform only added components appear and only
\* removed ones disappear; a plugin, conflict or MCP server that is in the
\* record and in the manifest gets no result and stays as it is.
C30_UpdateAppliesDelta ==
    [][(lastOp'.cmd = "update" /\ lastOp'.outcome = "updated") =>
          LET state == getRigState(RigName)
              diff == computeDiff(state, manifest)
              ResultIds(prefix) == { r.id : r \in { x \in lastOp'.results : x.prefix = prefix } }
          IN /\ ResultIds("plugin:") \subseteq diff.pluginsAdded
             /\ ResultIds("conflict:") \subseteq diff.conflictsAdded
             /\ ResultIds("mcp:") \subseteq diff.mcpAdded
             /\ platform'.plugins \ platform.plugins \subseteq diff.pluginsAdded
             /\ platform.plugins \ platform'.plugins \subseteq diff.pluginsRemoved
             /\ platform'.disabled \ platform.disabled \subseteq diff.conflictsAdded
             /\ platform.disabled \ platform'.disabled \subseteq diff.conflictsRemoved
             /\ platform'.mcp \ platform.mcp \subseteq diff.mcpAdded
             /\ platform.mcp \ platform'.mcp \subseteq diff.mcpRemoved
             /\ \A p \in state.plugins \cap getAllPluginSources(manifest) :
                   p \notin ResultIds("plugin:")
                   /\ (p \in platform'.plugins <=> p \in platform.plugins)
             /\ \A c \in state.disabledConflicts \cap manifest.conflicts :
                   c \notin ResultIds("conflict:")
                   /\ (c \in platform'.disabled <=> c \in platform.disabled)
             /\ \A m \in { x.name : x \in state.mcpServers }
                           \cap { x.name : x \in manifest.mcpServers } :
                   m \notin ResultIds("mcp:")
                   /\ (m \in platform'.mcp <=> m \in platform.mcp)]_vars

\* an update has installed the new recommended plugin and re-enabled the
\* dropped conflict; the required plugin of the record got no result
C30_Witness ==
    /\ lastOp.cmd = "update" /\ lastOp.outcome = "updated"
    /\ Result("plugin:", "p2", "installed") \in lastOp.results
    /\ "plugin enable" \in lastOp.calls
    /\ "p1" \in getRigState(RigName).plugins
    /\ "p1" \in platform.plugins
    /\ \A r \in lastOp.results : r.id # "p1"

\* ---- SpecTimeouts: the four command phases of the claude-code adapter, each
\* command of a unit working, failing or timing out.

TimeoutManifests ==
    { [BaseManifest EXCEPT !.conflicts = c, !.mcpServers = m, !.marketplaces = mk] :
        c \in SUBSET ConflictIds, m \in SUBSET McpServers, mk \in SUBSET MarketplaceIds }

InitTimeouts ==
    /\ InitRig
    /\ manifest \in TimeoutManifests
    /\ platform \in [plugins : SUBSET RequiredIds, disabled : {{}},
                     mcp : SUBSET { m.name : m \in McpServers }, marketplaces : {{}}]
    /\ rootFile = [a \in Assets |-> Absent]
    /\ profile = Absent

\* addMarketplaces, installPlugins, disableConflicts and installMcpServers of
\* the claude-code adapter, one after the other, as installCommand calls them
AdapterPhases(outcomes) ==
    LET fail == { u \in DOMAIN outcomes : ~run(outcomes[u]).ok }
        mpResults == ClaudeAddMarketplaces(manifest, fail)
        pluginResults == ClaudeInstallPlugins(manifest, platform, fail)
        conflictResults == ClaudeDisableConflicts(manifest.conflicts, fail)
        mcpResults == ClaudeInstallMcpServers(manifest.mcpServers, platform, fail)
        after == PlatformAfterApply(platform, mpResults, pluginResults, conflictResults, mcpResults)
    IN /\ platform' = after
       /\ owned' = OwnedAfter(owned, platform, after)
       /\ lastOp' = [cmd |-> "adapterPhases", outcomes |-> outcomes,
                     results |-> mpResults \cup pluginResults \cup conflictResults
                                 \cup mcpResults]
       /\ UNCHANGED <<dirs, manifest, stateFile, written, behFile, sidecar, rootFile, profile, procs>>

NextTimeouts == \E outcomes \in [Units(manifest) -> CommandOutcomes] : AdapterPhases(outcomes)

SpecTimeouts == InitTimeouts /\ [][NextTimeouts]_vars

\* the status of the one result of unit u
StatusOf(results, u) == (CHOOSE r \in results : r.id = u).status

\* the command of unit u is run at all: installMcpServers skips the `mcp add`
\* of a server that `mcp get` finds
CommandRuns(plat, rig, u) == ~(u \in { m.name : m \in rig.mcpServers } /\ u \in plat.mcp)

FaultManifests ==
    { [BaseManifest EXCEPT !.conflicts = c, !.environment = e, !.tools = t,
                           !.behavioral = [NoAssets EXCEPT !["claude-md"] = b]] :
        c \in SUBSET ConflictIds, e \in {<< >>, Env1},
        t \in {<< >>, <<[name |-> "t1", optional |-> FALSE, outcome |-> "error"]>>},
        b \in {"undeclared", "missing"} }

InitFaults ==
    /\ InitRig
    /\ manifest \in FaultManifests
    /\ platform = EmptyPlatform
    /\ rootFile = [a \in Assets |-> Absent]
    /\ profile \in {Absent, UnwritableProfile}

NextFaults ==
    \/ Install(TRUE, FALSE, FALSE, TRUE, {"claude-code"})
    \/ \E m \in FaultManifests : Publish(m)

SpecFaults == InitFaults /\ [][NextFaults]_vars

\* C21 as stated: an install that has begun its batch goes through every
\* phase whatever failed on the way: it ends as installed, with the tools
\* run, the environment block written where the rig declares one, the record
\* saved and the verification done.
C21_FailuresNeverStopTheBatch ==
    (lastOp.cmd = "install" /\ "addMarketplaces" \in lastOp.calls) =>
        /\ lastOp.outcome = "installed"
        /\ {"installPlugins", "disableConflicts", "installMcpServers", "installTools",
            "setRigState", "verify"} \subseteq lastOp.calls
        /\ manifest.environment # << >> => "writeEnvBlock" \in lastOp.calls
        /\ HasRigState(RigName)

\* ---- update and the behavioral files (checked under SpecBehavioral)

\* C31 as stated: every confirmed update of an installed rig whose manifest
\* declares behavioral assets runs installBehavioral, also when the content of
\* the behavioral file is all that changed since the last install.
C31_UpdateAlwaysReinstallsBehavioral ==
    [][(lastOp'.cmd = "update" /\ HasRigState(RigName) /\ Declared(manifest) # {})
          => "installBehavioral" \in lastOp'.calls]_vars

\* C32 as stated: in a run of installBehavioral the hash recorded for a path
\* becomes the hash of the content written when the run writes the path, and
\* stays as it was when the run refuses the write, finds no source, or has
\* no config for the asset.
C32_HashChangesOnlyOnWrite ==
    [][RunsInstallBehavioral(lastOp') =>
        \A a \in Assets :
            IF /\ a \in Declared(manifest)
               /\ manifest.behavioral[a] # "missing"
               /\ ~Refused(lastOp', a)
            THEN sidecar'[a] = sha256(manifest.behavioral[a])
            ELSE sidecar'[a] = sidecar[a]]_vars

\* ---- SpecRigs: several rigs in one shell profile.  Here the markers are
\* spelled out: "s" is a blank, a rig name is a sequence of characters, and
\* "." is a character that means "any character" in a pattern unless escaped.
\* Every rig writes with the shell detectShell finds on the machine.

\* rig names: one is a prefix and a suffix of another, one holds a "."
ProfileRigNames == {<<"a">>, <<"a", "-", "a">>, <<"a", ".", "a">>}

\* BEGIN_TAG(rigName): # --- agent-rig: <name> ---
\* The text before the name is one token, the name is spelled out, then come
\* the blank and the three dashes.
BEGIN_TAG_OF(rigName) == <<"# --- agent-rig: ">> \o rigName \o <<"s", "---">>

\* END_TAG(rigName): # --- end agent-rig: <name> ---
END_TAG_OF(rigName) == <<"# --- end agent-rig: ">> \o rigName \o <<"s", "---">>

\* a pattern built from the text as it is: "." stands for any character
escapeRegExpNothing(text) ==
    [i \in 1..Len(text) |-> [ch |-> text[i], any |-> text[i] = "."]]

\* escapeRegExp: every character of the text stands for itself
escapeRegExp(text) ==
    [i \in 1..Len(text) |-> [ch |-> text[i], any |-> FALSE]]

\* the pattern matches the content at index i ("." does not match a newline)
MatchesAt(content, pattern, i) ==
    /\ i >= 1
    /\ i + Len(pattern) - 1 <= Len(content)
    /\ \A k \in 1..Len(pattern) :
          IF pattern[k].any THEN content[i + k - 1] # "n"
          ELSE content[i + k - 1] = pattern[k].ch

\* index of the first match of the pattern at or after from, 0 when there is none
FirstMatch(content, pattern, from) ==
    LET found == { i \in from..Len(content) : MatchesAt(content, pattern, i) }
    IN IF found = {} THEN 0 ELSE CHOOSE i \in found : \A o \in found : i <= o

\* index of the first place at or after from where the text stands in the content
FirstOccurrence(content, text, from) ==
    LET found == { i \in from..Len(content) :
                     /\ i + Len(text) - 1 <= Len(content)
                     /\ SubSeq(content, i, i + Len(text) - 1) = text }
    IN IF found = {} THEN 0 ELSE CHOOSE i \in found : \A o \in found : i <= o

\* content.includes(text)
includesText(content, text) == FirstOccurrence(content, text, 1) # 0

\* the first match of  begin [\s\S]*? end : <<first index, last index>>,
\* <<0, 0>> when there is none.  The match starts at the first begin that has
\* an end after it, which is the first begin if any has one.
TaggedSpan(content, beginPattern, endPattern) ==
    LET b == FirstMatch(content, beginPattern, 1)
        e == IF b = 0 THEN 0 ELSE FirstMatch(content, endPattern, b + Len(beginPattern))
    IN IF e = 0 THEN <<0, 0>> ELSE <<b, e + Len(endPattern) - 1>>

\* formatEnvBlock(rigName, env, shell)
formatEnvBlockOf(rigName, env, shellName) ==
    BEGIN_TAG_OF(rigName) \o EnvLines(env, shellName) \o <<"n">> \o END_TAG_OF(rigName)

\* hasEnvBlock(rigName, profilePath)
hasEnvBlockOf(rigName, prof) ==
    prof # Absent /\ includesText(prof, BEGIN_TAG_OF(rigName))

\* writeEnvBlock(rigName, env, shell): the new content of the profile
writeEnvBlockOf(rigName, prof, env, shellName) ==
    LET block == formatEnvBlockOf(rigName, env, shellName)
        span == TaggedSpan(prof, escapeRegExp(BEGIN_TAG_OF(rigName)),
                           escapeRegExp(END_TAG_OF(rigName)))
    IN IF prof = Absent THEN block \o <<"n">>
       ELSE IF includesText(prof, BEGIN_TAG_OF(rigName))
       THEN IF span[1] = 0 THEN prof
            ELSE SubSeq(prof, 1, span[1] - 1)
                 \o ExpandReplacement(block, SubSeq(prof, span[1], span[2]),
                                      SubSeq(prof, 1, span[1] - 1),
                                      SubSeq(prof, span[2] + 1, Len(prof)))
                 \o SubSeq(prof, span[2] + 1, Len(prof))
       ELSE trimEnd(prof) \o <<"n", "n">> \o block \o <<"n">>

\* removeEnvBlock(rigName, profilePath): the content of the profile afterwards
removeEnvBlockOf(rigName, prof) ==
    IF ~hasEnvBlockOf(rigName, prof) THEN prof
    ELSE LET span == TaggedSpan(prof, escapeRegExp(BEGIN_TAG_OF(rigName)),
                                escapeRegExp(END_TAG_OF(rigName)))
             from == IF span[1] > 1 /\ prof[span[1] - 1] = "n"
                     THEN span[1] - 1 ELSE span[1]
             to == IF span[2] < Len(prof) /\ prof[span[2] + 1] = "n"
                   THEN span[2] + 1 ELSE span[2]
             replaced == IF span[1] = 0 THEN prof
                         ELSE SubSeq(prof, 1, from - 1) \o <<"n">>
                              \o SubSeq(prof, to + 1, Len(prof))
         IN trimEnd(CollapseNewlines(replaced)) \o <<"n">>

RigEnvs == { <<[key |-> "K", value |-> v]>> : v \in {<<"v1">>, <<"v2">>} }

InitRigs ==
    /\ InitRig
    /\ manifest = BaseManifest
    /\ platform = EmptyPlatform
    /\ rootFile = [a \in Assets |-> Absent]
    /\ profile \in {Absent, <<"x", "n">>}

RigEnvLog(cmd, outcome, rigName) ==
    [cmd |-> cmd, outcome |-> outcome, rigName |-> rigName]

\* writeEnvBlock(rigName, env, shell) for one of the rigs
WriteEnvOf(rigName, env, shellName) ==
    /\ profile' = writeEnvBlockOf(rigName, profile, env, shellName)
    /\ UNCHANGED <<dirs, manifest, stateFile, platform, owned, written, behFile, sidecar, rootFile, procs>>
    /\ lastOp' = RigEnvLog("writeEnvBlock", "", rigName)

\* removeEnvBlock(rigName, profilePath) for one of the rigs
RemoveEnvOf(rigName) ==
    /\ profile' = removeEnvBlockOf(rigName, profile)
    /\ UNCHANGED <<dirs, manifest, stateFile, platform, owned, written, behFile, sidecar, rootFile, procs>>
    /\ lastOp' = RigEnvLog("removeEnvBlock",
                           IF hasEnvBlockOf(rigName, profile) THEN "true" ELSE "false",
                           rigName)

NextRigs ==
    \/ \E rigName \in ProfileRigNames, env \in RigEnvs, shellName \in {detectShell.name} :
          WriteEnvOf(rigName, env, shellName)
    \/ \E rigName \in ProfileRigNames : RemoveEnvOf(rigName)

SpecRigs == InitRigs /\ [][NextRigs]_vars

\* the tagged block of a rig as it stands in the content: begin marker, body,
\* end marker; <<>> when the content holds no begin marker of the rig
BlockIn(content, rigName) ==
    IF content = Absent THEN <<>>
    ELSE LET b == FirstOccurrence(content, BEGIN_TAG_OF(rigName), 1)
             e == IF b = 0 THEN 0 ELSE FirstOccurrence(content, END_TAG_OF(rigName), b)
         IN IF b = 0 THEN <<>>
            ELSE IF e = 0 THEN SubSeq(content, b, Len(content))
            ELSE SubSeq(content, b, e + Len(END_TAG_OF(rigName)) - 1)

\* C33: writeEnvBlock and removeEnvBlock for one rig leave the tagged block of
\* every other rig in the profile as it was, and whether hasEnvBlock finds
\* the other rig's block; after a write hasEnvBlock finds the rig's own block,
\* after a removal it does not, whichever other blocks the profile holds.
C33_OtherRigsUntouched ==
    [][lastOp'.cmd \in {"writeEnvBlock", "removeEnvBlock"} =>
        /\ \A other \in ProfileRigNames \ {lastOp'.rigName} :
              /\ BlockIn(profile', other) = BlockIn(profile, other)
              /\ hasEnvBlockOf(other, profile') = hasEnvBlockOf(other, profile)
        /\ hasEnvBlockOf(lastOp'.rigName, profile') = (lastOp'.cmd = "writeEnvBlock")]_vars

\* the block of rig a.a has been written again in a profile where the block of
\* a-a comes before it and the block of a after it
C33_Witness ==
    /\ lastOp.cmd = "writeEnvBlock"
    /\ lastOp.rigName = <<"a", ".", "a">>
    /\ profile # Absent
    /\ \A rigName \in ProfileRigNames : hasEnvBlockOf(rigName, profile)
    /\ BlockIn(profile, <<"a", ".", "a">>) = formatEnvBlockOf(<<"a", ".", "a">>, <<[key |-> "K", value |-> <<"v2">>]>>, "zsh")
    /\ \E i \in 1..Len(profile) :
          /\ MatchesAt(profile, escapeRegExp(BEGIN_TAG_OF(<<"a", "-", "a">>)), i)
          /\ \E j \in i..Len(profile) :
                /\ MatchesAt(profile, escapeRegExp(BEGIN_TAG_OF(<<"a", ".", "a">>)), j)
                /\ \E k \in j..Len(profile) :
                      MatchesAt(profile, escapeRegExp(BEGIN_TAG_OF(<<"a">>)), k)

\* ---- SpecPointers: the pointer lines in ./CLAUDE.md and ./AGENTS.md.  Forced
\* installs and uninstalls on claude-code; manifests that declare either
\* asset or both; the root files exist or not before the
\* rig comes; the user edits the installed files between runs.

PointerManifests ==
    { [BaseManifest EXCEPT !.behavioral = b] :
        b \in [Assets -> {"undeclared", "A"}] \ {NoAssets} }

InitPointers ==
    /\ InitRig
    /\ manifest \in PointerManifests
    /\ platform = EmptyPlatform
    /\ rootFile \in [Assets -> {Absent, <<"x", "n">>}]
    /\ profile = Absent

NextPointers ==
    \/ Install(TRUE, FALSE, FALSE, TRUE, {"claude-code"})
    \/ Uninstall(TRUE)
    \/ \E m \in PointerManifests : Publish(m)
    \/ \E a \in Assets, c \in UserContents : UserEdits(a, c)

SpecPointers == InitPointers /\ [][NextPointers]_vars

HasPointer(root) == root # Absent /\ includes(root, PointerLine)

\* C34: a root file never holds more than one line with the rig's pointer
\* tag, and a run of installBehavioral that finds the tag in a root file
\* leaves that file as it is.
C34_PointerInsertedOnce ==
    /\ [](\A a \in Assets : rootFile[a] # Absent => Count(rootFile[a], PointerLine) <= 1)
    /\ [][RunsInstallBehavioral(lastOp') =>
            \A a \in Assets : HasPointer(rootFile[a]) => rootFile'[a] = rootFile[a]]_vars

\* a second run has written both behavioral files again and found both pointers
C34_Witness ==
    /\ RunsInstallBehavioral(lastOp)
    /\ \A a \in Assets :
          /\ \E r \in lastOp.results :
                r.prefix = "behavioral:" /\ r.id = a /\ r.message = "pointer already exists"
          /\ Count(rootFile[a], PointerLine) = 1
    /\ rootFile["agents-md"] = <<PointerLine, "n", "n", "x", "n">>

\* ---- SpecConfirm: the confirmation prompt.  The three commands run with or
\* without --yes; without it the user types an answer at the prompt.  An
\* answer is a sequence of characters: "y", "Y", another letter "e", a blank "s".

Answers ==
    {<<>>, <<"y">>, <<"Y">>, <<"e">>, <<"s", "y", "s">>, <<"s", "Y">>,
     <<"y", "e", "s">>, <<"e", "y">>}

\* String.prototype.trim
RECURSIVE trimStart(_)
trimStart(content) ==
    IF content # <<>> /\ IsSpace(content[1]) THEN trimStart(Tail(content)) ELSE content

trim(content) == trimStart(trimEnd(content))

\* String.prototype.toLowerCase
toLowerCase(content) ==
    [i \in 1..Len(content) |-> IF content[i] = "Y" THEN "y" ELSE content[i]]

\* a confirm that takes every answer that begins with y
confirmByFirstLetter(answer) ==
    LET typed == toLowerCase(trim(answer))
    IN typed # <<>> /\ typed[1] = "y"

\* confirm(message): answer.trim().toLowerCase() === "y"
confirm(answer) == toLowerCase(trim(answer)) = <<"y">>

\* manifests with a plugin, a behavioral file and an env map, in two versions
ConfirmManifests ==
    { [BaseManifest EXCEPT !.version = v,
                           !.behavioral = [NoAssets EXCEPT !["claude-md"] = "A"],
                           !.environment = Env1] :
        v \in Versions }

InitConfirm ==
    /\ InitRig
    /\ manifest \in ConfirmManifests
    /\ platform = EmptyPlatform
    /\ rootFile = [a \in Assets |-> Absent]
    /\ profile = Absent

\* installCommand with opts.yes, or with the answer typed at its prompt
InstallAsking(force, yes, answer) ==
    Install(force, FALSE, FALSE, yes \/ confirm(answer), {"claude-code"})

\* updateCommand with opts.yes, or with the answer typed at its prompt
UpdateAsking(yes, answer) == Update(FALSE, yes \/ confirm(answer), {"claude-code"})

\* uninstallCommand with opts.yes, or with the answer typed at its prompt
UninstallAsking(yes, answer) == Uninstall(yes \/ confirm(answer))

NextConfirm ==
    \/ \E force \in BOOLEAN, yes \in BOOLEAN, answer \in Answers :
          InstallAsking(force, yes, answer)
    \/ \E yes \in BOOLEAN, answer \in Answers : UpdateAsking(yes, answer)
    \/ \E yes \in BOOLEAN, answer \in Answers : UninstallAsking(yes, answer)
    \/ \E m \in ConfirmManifests : Publish(m)

SpecConfirm == InitConfirm /\ [][NextConfirm]_vars

\* the answer is one y or Y with nothing but blanks around it
IsJustY(answer) ==
    \E i \in 1..Len(answer) :
        /\ answer[i] \in {"y", "Y"}
        /\ \A k \in 1..Len(answer) : k # i => answer[k] = "s"

\* C35: without --yes, a run of install, update or uninstall whose answer is
\* not just y or Y changes nothing: no adapter command, no tool command, no
\* file of the host written, the state file as it was.
C35_NothingWithoutY ==
    [][\A answer \in Answers :
          (/\ ~IsJustY(answer)
           /\ \/ \E force \in BOOLEAN : InstallAsking(force, FALSE, answer)
              \/ UpdateAsking(FALSE, answer)
              \/ UninstallAsking(FALSE, answer))
          => /\ UNCHANGED <<platform, stateFile, behFile, sidecar, rootFile, profile>>
             /\ lastOp'.results = {}
             /\ lastOp'.calls \subseteq {"detect", "checkConflicts"}]_vars

\* an uninstall of an installed rig has been turned away at the prompt: the
\* plugins, the env block and the record are still there
C35_Witness ==
    /\ lastOp.cmd = "uninstall"
    /\ lastOp.outcome = "aborted"
    /\ HasRigState(RigName)
    /\ platform.plugins # {}
    /\ hasEnvBlock(profile)

\* ---- the plugins of the stored record (checked under SpecPhases)

\* C36 as stated: every identifier in the plugins list of a record stored by
\* install is the source of a plugin the installed manifest declares,
\* whichever adapters were active and whatever results they gave.
C36_RecordedPluginsAreDeclared ==
    (lastOp.cmd = "install" /\ lastOp.outcome = "installed") =>
        getRigState(RigName).plugins \subseteq getAllPluginSources(manifest)

\* ---- update after update (checked under SpecComponents)

\* no command of the run failed: no result is failed, no conflict was skipped
NoCallFailed(op) ==
    \A r \in op.results :
        /\ r.status # "failed"
        /\ ~(r.prefix = "conflict:" /\ r.status = "skipped")

\* C37 as stated: after a confirmed update in which no adapter call failed, an
\* update of the same manifest finds no changes and reports that the rig is up
\* to date, also when the MCP server or the plugin was on the machine before
\* the rig was installed.
C37_UpdateReachesFixpoint ==
    [][(/\ lastOp.cmd = "update" /\ lastOp.outcome = "updated"
        /\ NoCallFailed(lastOp)
        /\ lastOp'.cmd = "update")
          => lastOp'.outcome = "up-to-date"]_vars

\* ---- SpecContent: the calls on the state store over every content of the
\* file: missing, unparsable, null, {} and documents with a rigs map; the rig
\* is installed and uninstalled in between.

\* what the file can hold when something else than this tool has written it
ForeignContents ==
    { [exists |-> TRUE, parses |-> p, shape |-> s, rigs |-> {}] :
        p \in BOOLEAN, s \in {"document", "null", "no-rigs"} }

InitContent ==
    /\ InitRig
    /\ manifest = BaseManifest
    /\ platform = EmptyPlatform
    /\ rootFile = [a \in Assets |-> Absent]
    /\ profile = Absent

StoreLog(cmd, outcome, name, rigState) ==
    [cmd |-> cmd, outcome |-> outcome, name |-> name, rigState |-> rigState]

\* getRigState(name)
GetRigState(name) ==
    /\ UNCHANGED <<stateFile, procs>>
    /\ StoreUntouched
    /\ lastOp' = StoreLog("getRigState",
                          IF RigsLookupThrows THEN "TypeError"
                          ELSE IF HasRigState(name) THEN "found" ELSE "undefined",
                          name, NoRigState)

\* setRigState(rigState)
SetRigState(name, rigState) ==
    /\ stateFile' = IF RigsLookupThrows THEN stateFile ELSE setRigState(name, rigState)
    /\ UNCHANGED procs
    /\ StoreUntouched
    /\ lastOp' = StoreLog("setRigState",
                          IF RigsLookupThrows THEN "TypeError" ELSE "saved", name, rigState)

\* removeRigState(name)
RemoveRigState(name) ==
    /\ stateFile' = IF RigsLookupThrows THEN stateFile ELSE removeRigState(name)
    /\ UNCHANGED procs
    /\ StoreUntouched
    /\ lastOp' = StoreLog("removeRigState",
                          IF RigsLookupThrows THEN "TypeError" ELSE "saved", name, NoRigState)

\* the file is written by something else than this tool
Overwrite(content) ==
    /\ content # stateFile
    /\ stateFile' = content
    /\ UNCHANGED procs
    /\ StoreUntouched
    /\ lastOp' = StoreLog("overwrite", "", "", NoRigState)

NextContent ==
    \/ \E name \in RigNames : GetRigState(name)
    \/ \E name \in RigNames, rigState \in StoreRecords : SetRigState(name, rigState)
    \/ \E name \in RigNames : RemoveRigState(name)
    \/ \E content \in ForeignContents : Overwrite(content)
    \/ Install(FALSE, FALSE, FALSE, TRUE, {"claude-code"})
    \/ Uninstall(TRUE)

SpecContent == InitContent /\ [][NextContent]_vars

\* C38 as stated: getRigState, setRigState and removeRigState never raise
\* because of what the state file holds; on a missing file, an unparsable one
\* and one that parses to null or {} they behave as on an empty store.
C38_NeverRaisesOnContent ==
    [][lastOp'.cmd \in {"getRigState", "setRigState", "removeRigState"} =>
        /\ lastOp'.outcome # "TypeError"
        /\ (~stateFile.exists \/ ~stateFile.parses \/ stateFile.shape # "document") =>
              /\ lastOp'.cmd = "getRigState" => lastOp'.outcome = "undefined"
              /\ lastOp'.cmd = "setRigState" =>
                    stateFile' = saveState(WithRig({}, lastOp'.name, lastOp'.rigState))
              /\ lastOp'.cmd = "removeRigState" => stateFile' = saveState({})]_vars

\* ---- SpecUninstall: uninstall with failing steps.  The rig declares a
\* conflict, an MCP server and an env map or not; the store may hold the
\* record of another rig; the profile may lose its write permission between
\* the install and the uninstall.

UninstallManifests ==
    { [BaseManifest EXCEPT !.conflicts = c, !.mcpServers = m, !.environment = e] :
        c \in SUBSET ConflictIds, m \in SUBSET McpServers, e \in {<< >>, Env1} }

InitUninstall ==
    /\ InitRig
    /\ manifest \in UninstallManifests
    /\ platform = EmptyPlatform
    /\ rootFile = [a \in Assets |-> Absent]
    /\ profile = Absent

\* the record of another rig is put into the store
InstallOther(rigState) ==
    /\ stateFile' = setRigState("other", rigState)
    /\ UNCHANGED procs
    /\ StoreUntouched
    /\ lastOp' = Log("install-other", "", "", FALSE, FALSE, {}, {})

NextUninstall ==
    \/ Install(FALSE, FALSE, FALSE, TRUE, {"claude-code"})
    \/ Uninstall(TRUE)
    \/ ProtectProfile
    \/ \E rigState \in StoreRecords : InstallOther(rigState)

SpecUninstall == InitUninstall /\ [][NextUninstall]_vars

\* C39 as stated: a confirmed uninstall of an installed rig ends with the
\* rig's record gone from the state store, whichever of its steps failed, and
\* with the record of every other rig as it was.
C39_UninstallAlwaysRemovesRecord ==
    [][(lastOp'.cmd = "uninstall" /\ HasRigState(RigName)) =>
        /\ \A e \in stateFile'.rigs : e.name # RigName
        /\ { e \in stateFile'.rigs : e.name # RigName }
              = { e \in stateFile.rigs : e.name # RigName }]_vars

\* ---- SpecClone: the temporary clone of a GitHub source.  install runs from a
\* local directory or from GitHub, with every option, with or without a
\* platform, and on a profile that can be written or not.

CloneManifests ==
    { [BaseManifest EXCEPT !.version = v, !.environment = e] :
        v \in Versions, e \in {<< >>, Env1} }

InitClone ==
    /\ stateFile = MissingStateFile
    /\ procs = [p \in Procs |-> Idle]
    /\ dirs \in {SourceDirs("local"), SourceDirs("github")}
    /\ owned = NothingOwned
    /\ written = [a \in Assets |-> NoFile]
    /\ behFile = [a \in Assets |-> NoFile]
    /\ sidecar = [a \in Assets |-> NoHash]
    /\ lastOp = NoLog
    /\ manifest \in CloneManifests
    /\ platform = EmptyPlatform
    /\ rootFile = [a \in Assets |-> Absent]
    /\ profile \in {Absent, UnwritableProfile}

NextClone ==
    \/ \E force \in BOOLEAN, dryRun \in BOOLEAN, confirmed \in BOOLEAN,
          active \in {{}, {"claude-code"}} :
          Install(force, dryRun, FALSE, confirmed, active)
    \/ \E m \in CloneManifests : Publish(m)

SpecClone == InitClone /\ [][NextClone]_vars

\* C40 as stated: however install ends once the source has been fetched, the
\* temporary clone of a GitHub source has been deleted, and a local source
\* directory is never deleted.
C40_CloneAlwaysCleanedUp ==
    [][lastOp'.cmd = "install" =>
        /\ dirs'.source = "github" => dirs'.clone = "deleted"
        /\ dirs'.local = "present"]_vars

====
